---------------------------- MODULE Spec2Model ----------------------------
(***************************************************************************)
(* A model of the retrieval and ranking engine of the catalog shopping     *)
(* assistant: backend/services/text_index.py (TextIndex),                  *)
(* backend/services/embedding_index.py (EmbeddingIndex) and                *)
(* backend/services/vision_search.py (VisionIndex).                        *)
(*                                                                         *)
(* Scores are floats in the code.  The model keeps them as fixed-point     *)
(* integers, One units to 1.0, and chooses prices and embedding            *)
(* components so that every product and quotient the code forms is exact.  *)
(***************************************************************************)
EXTENDS Integers, Sequences, FiniteSets, TLC

VARIABLES
    \* ---- TextIndex ----
    catalog,      \* self.catalog: the list of item records
    vecs,         \* self.vecs: row i is the embedding of catalog item i
    sortTies,     \* how this build of numpy orders equal keys in np.argsort
    req,          \* the arguments of the last search_with_filters call
    out,          \* what that call returned, or that it raised
    memoReq,      \* an earlier call, remembered, and
    memoOut,      \*   what it returned
    between,      \* whether another call ran since the remembered one
    \* ---- EmbeddingIndex ----
    eFiles,       \* the cache directory: vec, meta, mode, tfm, tfx
    eCatalog,     \* self.catalog: the item ids, in catalog order
    apiKey,       \* self.api_key is set
    eX,           \* self._X: the rows held in memory
    eMode,        \* self._mode, "unset" while the attribute does not exist
    eTfidf,       \* self._tfidf_vectorizer
    epc,          \* where the thread using the index is
    eRet,         \* what called _rebuild_resilient: "init", "load", "search"
    eKind,        \* the search running: "search" or "search_with_filters"
    eItem,        \* _embed_batch_gemini: the text being embedded
    eAttempt,     \* _embed_one_gemini: the attempts failed so far
    eGot,         \* _embed_batch_gemini: the vectors gathered so far
    eDepth,       \* how many times the running search has called itself
    eObs,         \* the last scoring: the encoder used and the rows scored
    eOutcome,     \* how the last operation ended
    eSnap,        \* the cache and the attributes when the build began
    eHist,        \* the running build: Gemini calls made and succeeded
    \* ---- VisionIndex ----
    vBackend,     \* self.backend: "open_clip", "resnet50" or "hsv"
    vCatalog,     \* self.catalog
    vMeta,        \* self.meta: one row per catalog item that has an image
    vEmbs,        \* self.embs: row j is the embedding of vMeta[j]'s image
    vHists,       \* self.hists: row j is its HSV histogram
    vFiles,       \* the cache directory: vision_emb_<backend>.npy,
                  \*   vision_hists.npy and vision_meta.json
    vReq,         \* the arguments of the last _search_image call
    vOut,         \* what that call returned
    vMemoReq,     \* an earlier call, remembered, and
    vMemoOut,     \*   what it returned
    vBetween,     \* whether another call ran since the remembered one
    \* ---- EmbeddingIndex: the items a search returns ----
    qCatalog,     \* self.catalog, the items
    qReq,         \* the arguments of the last search
    qOut,         \* the list it returned
    \* ---- ImageSearch ----
    iProducts,    \* self.products
    iImgCache,    \* self._cache_img_emb: the products it holds a vector of
    iTxtCache,    \* self._cache_txt_emb: the products it holds a vector of
    iReq,         \* the arguments of the last search_by_image_url
    iOut,         \* the products it returned, by their place in products
    iObs,         \* the encoders that gave the vectors it compared
    \* ---- _dominant_color_name ----
    cImg,         \* the image classified
    cColor,       \* the name returned, "none" before the call
    \* ---- Agent.chat ----
    aReq,         \* the user text and what Gemini answered to it
    aOut,         \* the reply of chat, or that it raised
    \* ---- TextIndex.search_with_filters, statement by statement ----
    sReq,         \* the arguments of the running call
    sPc,          \* the statement the call is at
    sQv,          \* qv, once the query is encoded
    sSims,        \* sims, once computed: one entry per row of vecs
    sCand,        \* idx, once the filters ran
    sOut,         \* what the call returned
    \* ---- TextIndex: the generation before the one in use ----
    gCatalog,     \* its catalog, unset while there was none
    gVecs,        \* its vectors
    USE_ST        \* sentence_transformers is installed

textVars == <<catalog, vecs, sortTies, req, out, memoReq, memoOut, between>>

embVars == <<eFiles, eCatalog, apiKey, eX, eMode, eTfidf, epc, eRet, eKind,
             eItem, eAttempt, eGot, eDepth, eObs, eOutcome, eSnap, eHist>>

visVars == <<vBackend, vCatalog, vMeta, vEmbs, vHists, vFiles, vReq, vOut, vMemoReq,
             vMemoOut, vBetween>>

embQueryVars == <<qCatalog, qReq, qOut>>

imageVars == <<iProducts, iImgCache, iTxtCache, iReq, iOut, iObs>>

colorVars == <<cImg, cColor>>

agentVars == <<aReq, aOut>>

stepVars == <<sReq, sPc, sQv, sSims, sCand, sOut>>

genVars == <<gCatalog, gVecs, USE_ST>>

laterVars == <<agentVars, stepVars, genVars>>

\* What an operation of one index leaves alone: the other indexes.
notTextVars == <<embVars, visVars, embQueryVars, imageVars,
    colorVars, laterVars>>

notEmbVars == <<textVars, visVars, embQueryVars, imageVars,
    colorVars, laterVars>>

notVisVars == <<textVars, embVars, embQueryVars, imageVars,
    colorVars, laterVars>>

notEmbQueryVars == <<textVars, embVars, visVars, imageVars,
    colorVars, laterVars>>

notImageVars == <<textVars, embVars, visVars, embQueryVars, colorVars,
    laterVars>>

notColorVars == <<textVars, embVars, visVars, embQueryVars, imageVars,
    laterVars>>

notAgentVars == <<textVars, embVars, visVars, embQueryVars, imageVars,
    colorVars, stepVars, genVars>>

notStepVars == <<textVars, embVars, visVars, embQueryVars, imageVars,
    colorVars, agentVars, genVars>>

notGenVars == <<embVars, visVars, embQueryVars, imageVars, colorVars,
    agentVars, stepVars>>

vars == <<catalog, vecs, sortTies, req, out, memoReq, memoOut, between,
          eFiles, eCatalog, apiKey, eX, eMode, eTfidf, epc, eRet, eKind,
          eItem, eAttempt, eGot, eDepth, eObs, eOutcome, eSnap, eHist,
          vBackend, vCatalog, vMeta, vEmbs, vHists, vFiles, vReq, vOut,
          vMemoReq,
          vMemoOut, vBetween, qCatalog, qReq, qOut,
          iProducts, iImgCache, iTxtCache, iReq, iOut, iObs, cImg, cColor,
          aReq, aOut, sReq, sPc, sQv, sSims, sCand, sOut, gCatalog, gVecs,
          USE_ST>>

-----------------------------------------------------------------------------
(* Values *)

\* Python's None (an absent argument, an absent field).
None == "None"

\* 1.0 in score units.
One == 2400

Min(a, b) == IF a < b THEN a ELSE b

Max(a, b) == IF a > b THEN a ELSE b

Range(s) == {s[i] : i \in 1..Len(s)}

-----------------------------------------------------------------------------
(* text_index.py: canonical tokens *)

COLOR_SET == {"red", "blue", "green", "black", "white", "yellow", "brown",
              "gray", "purple", "orange", "assorted"}

CAT_SET == {"bags", "shoes", "jackets", "caps"}

\* s.strip().lower(), on the strings the model uses.
StripLower(s) ==
    CASE s = "Shoes"   -> "shoes"
      [] s = " BAGS "  -> "bags"
      [] s = "Purple " -> "purple"
      [] OTHER         -> s

\* Python truthiness of an Optional[str]: None and "" are falsy.
Truthy(s) == s # None /\ s # ""

_norm_color(s) ==
    IF ~Truthy(s) THEN None
    ELSE IF StripLower(s) \in COLOR_SET THEN StripLower(s) ELSE None

_norm_cat(s) ==
    IF ~Truthy(s) THEN None
    ELSE IF StripLower(s) \in CAT_SET THEN StripLower(s) ELSE None

-----------------------------------------------------------------------------
(* text_index.py: the catalog and the requests the model draws from *)

\* The largest catalog, in items.
MaxItems == 3

\* The largest top_k asked for.
MaxK == 2

\* An absent price bound (min_price=None, max_price=None).
NoPrice == -1

\* Catalog items (catalog.json entries): raw category and color strings as
\* the file holds them, a price in dollars, lower-cased tags, and emb, the
\* embedding the encoder gives the item's _text_blob.
ItemA == [category |-> "shoes", color |-> "red",     price |-> 0,
          tags |-> {"running"}, emb |-> <<10, 10>>]

ItemB == [category |-> "shoes", color |-> "red",     price |-> 50,
          tags |-> {},          emb |-> <<20, 10>>]

ItemC == [category |-> " BAGS ", color |-> "Purple ", price |-> 90,
          tags |-> {"running"}, emb |-> <<0, 20>>]

ItemD == [category |-> "Shoes", color |-> "purple",  price |-> 20,
          tags |-> {},          emb |-> <<10, 10>>]

ItemPool == {ItemA, ItemB, ItemC, ItemD}

Catalogs == UNION {[1..n -> ItemPool] : n \in 0..MaxItems}

Queries == {"", "Running"}

\* "hats" and "mauve" are outside the canonical sets.
CategoryArgs == {None, "Shoes", "hats"}

ColorArgs == {None, "purple", "mauve"}

MinPriceArgs == {NoPrice, 20}

MaxPriceArgs == {NoPrice, 0, 50}

Requests == [query : Queries, category : CategoryArgs, color : ColorArgs,
             min_price : MinPriceArgs, max_price : MaxPriceArgs,
             top_k : 0..MaxK]

\* Before the first call.
NoReq == [query |-> None, category |-> None, color |-> None,
          min_price |-> NoPrice, max_price |-> NoPrice, top_k |-> -1]

NoOut == [raised |-> FALSE, items |-> <<>>]

-----------------------------------------------------------------------------
(* text_index.py: the encoder *)

\* q = (query or "popular picks")
QueryText(query) == IF Truthy(query) THEN query ELSE "popular picks"

\* self._encode_query(q): the encoder's vector for the query text.
_encode_query(q) ==
    CASE q = "Running"       -> <<10, 0>>
      [] q = "popular picks" -> <<0, 10>>
      [] q = "purple running" -> <<10, 10>>
      [] q = "shoes under 40" -> <<10, 10>>
      [] q = "shoes between 50 and 20" -> <<10, 10>>
      [] OTHER               -> <<0, 0>>

\* set(re.findall(r"[a-zA-Z]+", q.lower()))
q_words(q) ==
    CASE q = "Running"       -> {"running"}
      [] q = "popular picks" -> {"popular", "picks"}
      [] q = "purple running" -> {"purple", "running"}
      [] q = "shoes under 40" -> {"shoes", "under"}
      [] q = "shoes between 50 and 20" -> {"shoes", "between", "and"}
      [] OTHER               -> {}

\* a @ b, in score units.
Dot(a, b) == a[1] * b[1] + a[2] * b[2]

\* __init__: self.vecs, one row per catalog item.
BuildVecs(cat) == [i \in 1..Len(cat) |-> cat[i].emb]

-----------------------------------------------------------------------------
(* text_index.py: TextIndex._apply_filters *)

PassesFilters(it, category, color, min_price, max_price) ==
    LET ccat == _norm_cat(category)
        ccol == _norm_color(color)
    IN  /\ ~(ccat # None /\ _norm_cat(it.category) # ccat)
        /\ ~(ccol # None /\ _norm_color(it.color) # ccol)
        /\ ~(min_price # NoPrice /\ it.price < min_price)
        /\ ~(max_price # NoPrice /\ it.price > max_price)

\* A filter whose price bounds are exclusive.
_apply_filters_Exclusive(cat, idxs, category, color, min_price, max_price) ==
    SelectSeq(idxs, LAMBDA i :
        /\ PassesFilters(cat[i], category, color, min_price, max_price)
        /\ cat[i].price # min_price
        /\ cat[i].price # max_price)

_apply_filters(cat, idxs, category, color, min_price, max_price) ==
    SelectSeq(idxs, LAMBDA i :
        PassesFilters(cat[i], category, color, min_price, max_price))

all_idx(cat) == [i \in 1..Len(cat) |-> i]

\* A retry that drops the category along with the color.
CandidateIdx_RelaxCategory(cat, r) ==
    LET idx == _apply_filters(cat, all_idx(cat), r.category, r.color,
                              r.min_price, r.max_price)
    IN  IF idx = <<>> /\ Truthy(r.category)
        THEN _apply_filters(cat, all_idx(cat), None, None,
                            r.min_price, r.max_price)
        ELSE idx

\* search_with_filters, lines 120-123: the filter, and its one retry
\* without the color.
CandidateIdx(cat, r) ==
    LET idx == _apply_filters(cat, all_idx(cat), r.category, r.color,
                              r.min_price, r.max_price)
    IN  IF idx = <<>> /\ Truthy(r.category)
        THEN _apply_filters(cat, all_idx(cat), r.category, None,
                            r.min_price, r.max_price)
        ELSE idx

-----------------------------------------------------------------------------
(* text_index.py: the re-ranking boosts *)

\* 0.12, per overlapping tag.
TagBoostStep == 288

\* min(overlap, 2)
TagBoostCap == 2

\* 0.10, the boost of an item priced exactly max_price.
PriceBoostFull == 240

tag_boost(it, q) ==
    TagBoostStep * Min(Cardinality(q_words(q) \cap it.tags), TagBoostCap)

\* p / float(max_price) raises ZeroDivisionError when max_price is 0.
PriceBoostRaises(it, max_price) ==
    max_price # NoPrice /\ ~(it.price > max_price) /\ max_price = 0

price_boost(it, max_price) ==
    IF max_price = NoPrice THEN 0
    ELSE IF it.price > max_price THEN -One
    ELSE IF max_price = 0 THEN 0
    ELSE (PriceBoostFull * it.price) \div max_price

-----------------------------------------------------------------------------
(* np.argsort(-score) *)

\* Whether position a comes before position b: the larger score first.
\* argsort's default kind is quicksort, which is not stable: the order of
\* equal keys is unspecified, but a function of the input for a given
\* build of numpy.  ties fixes it for the build: "asc" keeps equal keys
\* in index order, "desc" reverses them.
ComesBefore(score, ties, a, b) ==
    \/ score[a] > score[b]
    \/ /\ score[a] = score[b]
       /\ IF ties = "asc" THEN a < b ELSE a > b

ArgSortDesc(score, ties) ==
    LET n == Len(score)
        rank(p) == Cardinality({a \in 1..n : ComesBefore(score, ties, a, p)})
    IN  [k \in 1..n |-> CHOOSE p \in 1..n : rank(p) = k - 1]

\* A cut that keeps the whole list.
Slice_KeepAll(s, k) == s

\* s[:k], for k >= 0 and for k < 0.
Slice(s, k) ==
    IF k >= 0 THEN SubSeq(s, 1, Min(k, Len(s)))
    ELSE SubSeq(s, 1, Max(Len(s) + k, 0))

-----------------------------------------------------------------------------
(* text_index.py: TextIndex.search_with_filters *)

\* score = base + extra, over the candidates, in candidate order.
CandScores(cat, vv, r, cand) ==
    LET q    == QueryText(r.query)
        sims == [i \in 1..Len(vv) |-> Dot(vv[i], _encode_query(q))]
    IN  [j \in 1..Len(cand) |->
            sims[cand[j]] + tag_boost(cat[cand[j]], q)
                          + price_boost(cat[cand[j]], r.max_price)]

\* The list returned: a copy of each item with its score (idx is the
\* item's place in self.catalog), or raised when the call raises.
search_with_filters(cat, vv, ties, r) ==
    LET cand  == CandidateIdx(cat, r)
        score == CandScores(cat, vv, r, cand)
        order == Slice(ArgSortDesc(score, ties), r.top_k)
    IN  IF cand = <<>> THEN [raised |-> FALSE, items |-> <<>>]
        ELSE IF \E j \in 1..Len(cand) :
                    PriceBoostRaises(cat[cand[j]], r.max_price)
        THEN [raised |-> TRUE, items |-> <<>>]
        ELSE [raised |-> FALSE,
              items  |-> [k \in 1..Len(order) |->
                            [idx   |-> cand[order[k]],
                             item  |-> cat[cand[order[k]]],
                             score |-> score[order[k]]]]]

-----------------------------------------------------------------------------
(* TextIndex: the state machine *)

\* __init__: the catalog is read and the vectors are built from it.  The
\* build of numpy in use fixes the order argsort gives equal keys.
TextBuilt ==
    /\ catalog \in Catalogs
    /\ vecs = BuildVecs(catalog)
    /\ sortTies \in {"asc", "desc"}
    /\ req = NoReq
    /\ out = NoOut
    /\ memoReq = NoReq
    /\ memoOut = NoOut
    /\ between = FALSE

\* A call that updates in place the rows it scored.
SearchText_InPlace(r) ==
    /\ req = NoReq
    /\ req' = r
    /\ out' = search_with_filters(catalog, vecs, sortTies, r)
    /\ between' = (memoReq # NoReq /\ (between \/ r # memoReq))
    /\ vecs' = [i \in 1..Len(vecs) |->
                  IF \E k \in 1..Len(out'.items) : out'.items[k].idx = i
                  THEN <<vecs[i][1] + 1, vecs[i][2]>> ELSE vecs[i]]
    /\ UNCHANGED <<catalog, sortTies, memoReq, memoOut>>
    /\ UNCHANGED notTextVars

\* One call of search_with_filters on the index.
SearchText(r) ==
    /\ req = NoReq
    /\ req' = r
    /\ out' = search_with_filters(catalog, vecs, sortTies, r)
    /\ between' = (memoReq # NoReq /\ (between \/ r # memoReq))
    /\ UNCHANGED <<catalog, vecs, sortTies, memoReq, memoOut>>
    /\ UNCHANGED notTextVars

\* The caller takes the result; the index is idle again.
ReturnText ==
    /\ req # NoReq
    /\ req' = NoReq
    /\ out' = NoOut
    /\ UNCHANGED <<catalog, vecs, sortTies, memoReq, memoOut, between>>
    /\ UNCHANGED notTextVars

\* The caller takes the result and keeps it, to compare a later run of
\* the same call against it.
RememberText ==
    /\ req # NoReq
    /\ memoReq = NoReq
    /\ memoReq' = req
    /\ memoOut' = out
    /\ req' = NoReq
    /\ out' = NoOut
    /\ UNCHANGED <<catalog, vecs, sortTies, between>>
    /\ UNCHANGED notTextVars

-----------------------------------------------------------------------------
(* embedding_index.py: EmbeddingIndex, its cache files and its vectors *)

\* The largest catalog an EmbeddingIndex is built over, in items.
MaxEmbItems == 2

\* How many times a search may call itself before Python's recursion
\* limit ends it with RecursionError.
MaxDepth == 2

\* _embed_one_gemini(text, retries=3)
Retries == 3

\* A catalog is a list of item ids: the first n items, n from 0 up.
EmbCatalogs == {[i \in 1..n |-> i] : n \in 0..MaxEmbItems}

NoFile == [exists |-> FALSE, data |-> <<>>]

File(d) == [exists |-> TRUE, data |-> d]

\* An empty cache directory.
NoFiles == [vec |-> NoFile, meta |-> NoFile, mode |-> "absent",
            tfm |-> NoFile, tfx |-> NoFile]

\* An attribute the object does not have yet.
Unset == [set |-> FALSE, data |-> <<>>]

Attr(d) == [set |-> TRUE, data |-> d]

\* The row a backend computes for an item.
Row(backend, item) == [backend |-> backend, item |-> item]

\* vectorizer.fit_transform(texts).toarray(): one row per text.
TfidfRows(c) == [i \in 1..Len(c) |-> Row("tfidf", c[i])]

\* The backend whose rows a matrix holds.
RowsBackend(rows) ==
    IF rows = <<>> THEN "empty"
    ELSE IF \A i \in 1..Len(rows) : rows[i].backend = "tfidf" THEN "tfidf"
    ELSE IF \A i \in 1..Len(rows) : rows[i].backend = "gemini" THEN "gemini"
    ELSE "mixed"

NoObs == [by |-> "none", identity |-> "none", enc |-> "none", vec |-> "none"]

NoSnap == [files |-> NoFiles, X |-> Unset, mode |-> "unset", tfidf |-> Unset]

NoHist == [called |-> FALSE, anyOk |-> FALSE, fitRaised |-> FALSE]

\* mode = getattr(self, "_mode", "gemini")
ModeInUse(m) == IF m = "unset" THEN "gemini" ELSE m

\* No process has constructed an index; the cache directory is empty.
EmbIdle ==
    /\ eFiles = NoFiles
    /\ eCatalog = <<>>
    /\ apiKey = FALSE
    /\ eX = Unset
    /\ eMode = "unset"
    /\ eTfidf = Unset
    /\ epc = "none"
    /\ eRet = "init"
    /\ eKind = "search"
    /\ eItem = 1
    /\ eAttempt = 0
    /\ eGot = <<>>
    /\ eDepth = 0
    /\ eObs = NoObs
    /\ eOutcome = "none"
    /\ eSnap = NoSnap
    /\ eHist = NoHist

\* __init__, lines 108-126, when it rebuilds: a process starts over
\* catalog c, with or without GOOGLE_API_KEY.
ConstructBuild(c, key, force) ==
    /\ epc \in {"none", "idle", "crashed"}
    /\ force \/ ~eFiles.meta.exists \/ eFiles.mode = "absent"
    /\ eCatalog' = c
    /\ apiKey' = key
    /\ eX' = Unset
    /\ eMode' = "unset"
    /\ eTfidf' = Unset
    /\ epc' = "b_start"
    /\ eRet' = "init"
    /\ eDepth' = 0
    /\ eObs' = NoObs
    /\ eOutcome' = "none"
    /\ eKind' = "search"
    /\ eItem' = 1
    /\ eAttempt' = 0
    /\ eGot' = <<>>
    /\ eSnap' = NoSnap
    /\ eHist' = NoHist
    /\ UNCHANGED eFiles

\* __init__, lines 108-128, and _load, lines 202-216: the cache is there
\* and is read.
ConstructLoad(c, key) ==
    /\ epc \in {"none", "idle", "crashed"}
    /\ eFiles.meta.exists /\ eFiles.mode # "absent"
    /\ eCatalog' = c
    /\ apiKey' = key
    /\ eDepth' = 0
    /\ eObs' = NoObs
    /\ eOutcome' = "none"
    /\ IF eFiles.mode = "gemini"
       THEN /\ eX' = Attr(eFiles.vec.data)
            /\ eTfidf' = Unset
            /\ eMode' = "gemini"
            /\ epc' = "idle"
            /\ UNCHANGED eRet
       ELSE IF eFiles.mode = "tfidf"
       THEN /\ eX' = Attr(eFiles.tfx.data)
            /\ eTfidf' = Attr(eFiles.tfm.data)
            /\ eMode' = "tfidf"
            /\ epc' = "idle"
            /\ UNCHANGED eRet
       ELSE /\ eX' = Unset
            /\ eTfidf' = Unset
            /\ eMode' = "unset"
            /\ epc' = "b_start"
            /\ eRet' = "load"
    /\ eKind' = "search"
    /\ eItem' = 1
    /\ eAttempt' = 0
    /\ eGot' = <<>>
    /\ eSnap' = NoSnap
    /\ eHist' = NoHist
    /\ UNCHANGED eFiles

\* A rebuild that clears the cache directory before it encodes.
BuildStart_Wipe ==
    /\ epc = "b_start"
    /\ eSnap' = [files |-> eFiles, X |-> eX, mode |-> eMode, tfidf |-> eTfidf]
    /\ eHist' = NoHist
    /\ eItem' = 1
    /\ eAttempt' = 0
    /\ eGot' = <<>>
    /\ IF eCatalog = <<>>
       THEN /\ eFiles' = [eFiles EXCEPT !.vec = File(<<>>),
                                        !.meta = File(<<>>),
                                        !.mode = "gemini"]
            /\ eX' = Attr(<<>>)
            /\ epc' = "b_done"
       ELSE /\ epc' = IF apiKey THEN "b_gemini" ELSE "b_tfidf"
            /\ eFiles' = NoFiles
            /\ UNCHANGED eX
    /\ UNCHANGED <<eCatalog, apiKey, eMode, eTfidf, eRet, eKind, eDepth,
                   eObs, eOutcome>>

\* _rebuild_resilient, lines 159-172: the texts; an empty catalog gets
\* empty caches; otherwise Gemini is tried when there is a key.
BuildStart ==
    /\ epc = "b_start"
    /\ eSnap' = [files |-> eFiles, X |-> eX, mode |-> eMode, tfidf |-> eTfidf]
    /\ eHist' = NoHist
    /\ eItem' = 1
    /\ eAttempt' = 0
    /\ eGot' = <<>>
    /\ IF eCatalog = <<>>
       THEN /\ eFiles' = [eFiles EXCEPT !.vec = File(<<>>),
                                        !.meta = File(<<>>),
                                        !.mode = "gemini"]
            /\ eX' = Attr(<<>>)
            /\ epc' = "b_done"
       ELSE /\ epc' = IF apiKey THEN "b_gemini" ELSE "b_tfidf"
            /\ UNCHANGED <<eFiles, eX>>
    /\ UNCHANGED <<eCatalog, apiKey, eMode, eTfidf, eRet, eKind, eDepth,
                   eObs, eOutcome>>

\* _embed_one_gemini, lines 133-140: genai.embed_content answers.
GeminiCallOk ==
    /\ epc = "b_gemini"
    /\ eGot' = Append(eGot, Row("gemini", eCatalog[eItem]))
    /\ eHist' = [eHist EXCEPT !.called = TRUE, !.anyOk = TRUE]
    /\ eAttempt' = 0
    /\ IF eItem = Len(eCatalog)
       THEN epc' = "b_gem_store" /\ UNCHANGED eItem
       ELSE epc' = "b_gemini" /\ eItem' = eItem + 1
    /\ UNCHANGED <<eFiles, eCatalog, apiKey, eX, eMode, eTfidf, eRet, eKind,
                   eDepth, eObs, eOutcome, eSnap>>

\* A batch that, after the last retry, fills the item's row in from
\* TF-IDF and goes on with Gemini for the next item.
GeminiCallFail_FillIn ==
    /\ epc = "b_gemini"
    /\ eHist' = [eHist EXCEPT !.called = TRUE]
    /\ IF eAttempt + 1 < Retries
       THEN /\ eAttempt' = eAttempt + 1
            /\ UNCHANGED <<epc, eGot, eItem>>
       ELSE /\ eAttempt' = 0
            /\ eGot' = Append(eGot, Row("tfidf", eCatalog[eItem]))
            /\ IF eItem = Len(eCatalog)
               THEN epc' = "b_gem_store" /\ UNCHANGED eItem
               ELSE epc' = "b_gemini" /\ eItem' = eItem + 1
    /\ UNCHANGED <<eFiles, eCatalog, apiKey, eX, eMode, eTfidf, eRet, eKind,
                   eDepth, eObs, eOutcome, eSnap>>

\* A call that, after the last retry, starts its attempts over.
GeminiCallFail_StartOver ==
    /\ epc = "b_gemini"
    /\ eHist' = [eHist EXCEPT !.called = TRUE]
    /\ eAttempt' = IF eAttempt + 1 < Retries THEN eAttempt + 1 ELSE 0
    /\ UNCHANGED <<eFiles, eCatalog, apiKey, eX, eMode, eTfidf, eRet, eKind,
                   eItem, eGot, epc, eDepth, eObs, eOutcome, eSnap>>

\* _embed_one_gemini, lines 141-144: the call raises; after the last
\* retry the error leaves _embed_batch_gemini, the vectors gathered are
\* dropped and _rebuild_resilient, lines 181-183, goes on to TF-IDF.
GeminiCallFail ==
    /\ epc = "b_gemini"
    /\ eHist' = [eHist EXCEPT !.called = TRUE]
    /\ IF eAttempt + 1 < Retries
       THEN /\ eAttempt' = eAttempt + 1
            /\ UNCHANGED <<epc, eGot>>
       ELSE /\ eAttempt' = 0
            /\ eGot' = <<>>
            /\ epc' = "b_tfidf"
    /\ UNCHANGED <<eFiles, eCatalog, apiKey, eX, eMode, eTfidf, eRet, eKind,
                   eItem, eDepth, eObs, eOutcome, eSnap>>

\* _rebuild_resilient, lines 175-178: the Gemini vectors are saved and
\* held.
GeminiStore ==
    /\ epc = "b_gem_store"
    /\ eFiles' = [eFiles EXCEPT !.vec = File(eGot), !.meta = File(eCatalog)]
    /\ eX' = Attr(eGot)
    /\ epc' = "b_gem_mode"
    /\ UNCHANGED <<eCatalog, apiKey, eMode, eTfidf, eRet, eKind, eItem,
                   eAttempt, eGot, eDepth, eObs, eOutcome, eSnap, eHist>>

\* _rebuild_resilient, lines 179-180.
GeminiMode ==
    /\ epc = "b_gem_mode"
    /\ eFiles' = [eFiles EXCEPT !.mode = "gemini"]
    /\ epc' = "b_done"
    /\ UNCHANGED <<eCatalog, apiKey, eX, eMode, eTfidf, eRet, eKind, eItem,
                   eAttempt, eGot, eDepth, eObs, eOutcome, eSnap, eHist>>

\* _rebuild_resilient, lines 186-193: the vectorizer fits the texts.
TfidfFitOk ==
    /\ epc = "b_tfidf"
    /\ epc' = "b_tf_store"
    /\ UNCHANGED <<eFiles, eCatalog, apiKey, eX, eMode, eTfidf, eRet, eKind,
                   eItem, eAttempt, eGot, eDepth, eObs, eOutcome, eSnap,
                   eHist>>

\* _rebuild_resilient, line 192: fit_transform raises (a one-document
\* corpus has max_df below min_df; a corpus may have no term left), and
\* nothing catches it: the constructor, or the search, raises.
TfidfFitRaise ==
    /\ epc = "b_tfidf"
    /\ eHist' = [eHist EXCEPT !.fitRaised = TRUE]
    /\ eOutcome' = "build_failed"
    /\ epc' = IF eRet = "search" THEN "idle" ELSE "crashed"
    /\ UNCHANGED <<eFiles, eCatalog, apiKey, eX, eMode, eTfidf, eRet, eKind,
                   eItem, eAttempt, eGot, eDepth, eObs, eSnap>>

\* _rebuild_resilient, lines 194-199: the TF-IDF matrix, the vectorizer
\* and the ids are saved and the matrix is held.
TfidfStore ==
    /\ epc = "b_tf_store"
    /\ eFiles' = [eFiles EXCEPT !.tfx = File(TfidfRows(eCatalog)),
                                !.tfm = File(eCatalog),
                                !.meta = File(eCatalog)]
    /\ eX' = Attr(TfidfRows(eCatalog))
    /\ epc' = "b_tf_mode"
    /\ UNCHANGED <<eCatalog, apiKey, eMode, eTfidf, eRet, eKind, eItem,
                   eAttempt, eGot, eDepth, eObs, eOutcome, eSnap, eHist>>

\* _rebuild_resilient, line 200.
TfidfMode ==
    /\ epc = "b_tf_mode"
    /\ eFiles' = [eFiles EXCEPT !.mode = "tfidf"]
    /\ epc' = "b_done"
    /\ UNCHANGED <<eCatalog, apiKey, eX, eMode, eTfidf, eRet, eKind, eItem,
                   eAttempt, eGot, eDepth, eObs, eOutcome, eSnap, eHist>>

\* _rebuild_resilient returns: to __init__ (line 126), to _load (lines
\* 214-216, which reads the mode back), or to the search that called it
\* (lines 249-250, 310-311), which calls itself.
BuildReturn ==
    /\ epc = "b_done"
    /\ IF eRet = "search"
       THEN /\ epc' = "s_start"
            /\ eDepth' = eDepth + 1
            /\ UNCHANGED <<eMode, eOutcome>>
       ELSE /\ epc' = "idle"
            /\ eOutcome' = "built"
            /\ eMode' = IF eRet = "load" THEN eFiles.mode ELSE eMode
            /\ UNCHANGED eDepth
    /\ UNCHANGED <<eFiles, eCatalog, apiKey, eX, eTfidf, eRet, eKind, eItem,
                   eAttempt, eGot, eObs, eSnap, eHist>>

\* A caller calls search or search_with_filters.
SearchEmb(kind) ==
    /\ epc = "idle"
    /\ eKind' = kind
    /\ eDepth' = 0
    /\ eObs' = NoObs
    /\ eOutcome' = "none"
    /\ epc' = "s_start"
    /\ eItem' = 1
    /\ eAttempt' = 0
    /\ eGot' = <<>>
    /\ eSnap' = NoSnap
    /\ eHist' = NoHist
    /\ UNCHANGED <<eFiles, eCatalog, apiKey, eX, eMode, eTfidf, eRet>>

\* search, lines 232-243 and 252-270 (search_with_filters, lines 278-305
\* and 313-355): the candidates, the mode, and in TF-IDF mode the
\* scoring.  A call nested deeper than Python allows ends in
\* RecursionError.
SearchStep ==
    /\ epc = "s_start"
    /\ IF eDepth > MaxDepth
       THEN /\ eOutcome' = "raised"
            /\ epc' = "idle"
            /\ UNCHANGED <<eTfidf, eObs, eAttempt>>
       ELSE IF eKind = "search" /\ Len(eCatalog) = 0
       THEN /\ eOutcome' = "empty"
            /\ epc' = "idle"
            /\ UNCHANGED <<eTfidf, eObs, eAttempt>>
       ELSE IF ModeInUse(eMode) = "gemini"
       THEN /\ epc' = "s_embed"
            /\ eAttempt' = 0
            /\ UNCHANGED <<eTfidf, eObs, eOutcome>>
       ELSE IF ~eTfidf.set /\ ~eFiles.tfm.exists
       THEN /\ eOutcome' = "raised"
            /\ epc' = "idle"
            /\ UNCHANGED <<eTfidf, eObs, eAttempt>>
       ELSE /\ eTfidf' = IF eTfidf.set THEN eTfidf
                         ELSE Attr(eFiles.tfm.data)
            /\ eObs' = [by |-> "caller", identity |-> eMode,
                        enc |-> "tfidf", vec |-> RowsBackend(eX.data)]
            /\ eOutcome' = "ok"
            /\ epc' = "idle"
            /\ UNCHANGED eAttempt
    /\ UNCHANGED <<eFiles, eCatalog, apiKey, eX, eMode, eRet, eKind, eItem,
                   eGot, eDepth, eSnap, eHist>>

\* search, lines 245-251 (search_with_filters, 307-312): Gemini embeds
\* the query, and the rows held are scored against it.
QueryCallOk ==
    /\ epc = "s_embed"
    /\ apiKey
    /\ eObs' = [by |-> "caller", identity |-> eMode, enc |-> "gemini",
                vec |-> RowsBackend(eX.data)]
    /\ eOutcome' = IF RowsBackend(eX.data) \in {"gemini", "empty"}
                   THEN "ok" ELSE "mismatch"
    /\ epc' = "idle"
    /\ UNCHANGED <<eFiles, eCatalog, apiKey, eX, eMode, eTfidf, eRet, eKind,
                   eItem, eAttempt, eGot, eDepth, eSnap, eHist>>

\* search, lines 247-250: the embedding of the query raises; after the
\* last retry the search rebuilds the index and then calls itself.
QueryCallFail ==
    /\ epc = "s_embed"
    /\ IF eAttempt + 1 < Retries
       THEN /\ eAttempt' = eAttempt + 1
            /\ UNCHANGED <<epc, eRet>>
       ELSE /\ eAttempt' = 0
            /\ epc' = "b_start"
            /\ eRet' = "search"
    /\ UNCHANGED <<eFiles, eCatalog, apiKey, eX, eMode, eTfidf, eKind, eItem,
                   eGot, eDepth, eObs, eOutcome, eSnap, eHist>>

\* A second thread searches the same index while the first is inside
\* the rebuild its own search began: it reads self._mode and self._X,
\* its query is embedded, and it scores.
ReaderSearch ==
    /\ epc \in {"b_gemini", "b_gem_store", "b_gem_mode", "b_tfidf",
                "b_tf_store", "b_tf_mode", "b_done"}
    /\ eRet = "search"
    /\ ModeInUse(eMode) = "gemini" => apiKey
    /\ ModeInUse(eMode) = "tfidf" => eTfidf.set
    /\ eObs' = [by |-> "reader", identity |-> eMode,
                enc |-> ModeInUse(eMode), vec |-> RowsBackend(eX.data)]
    /\ UNCHANGED <<eFiles, eCatalog, apiKey, eX, eMode, eTfidf, epc, eRet,
                   eKind, eItem, eAttempt, eGot, eDepth, eOutcome, eSnap,
                   eHist>>

-----------------------------------------------------------------------------
(* embedding_index.py: the candidates and the ranking of a search *)

\* boosts.append(0.25 ...)
EmbColorBoost == 600

\* _tag_boosts.append(0.18 ...)
EmbTagBoost == 432

\* The query texts of search and search_with_filters.
EmbQueries == {"running", "shoes under 20", "jackets", "between 50 and 20"}

\* parse_query_constraints(q): the category word and the price bounds
\* found in the text; "between X and Y" is put in order.
parse_query_constraints(q) ==
    CASE q = "shoes under 20" ->
            [cat |-> "shoes", min_p |-> NoPrice, max_p |-> 20]
      [] q = "jackets" ->
            [cat |-> "jackets", min_p |-> NoPrice, max_p |-> NoPrice]
      [] q = "between 50 and 20" ->
            [cat |-> None, min_p |-> 20, max_p |-> 50]
      [] OTHER ->
            [cat |-> None, min_p |-> NoPrice, max_p |-> NoPrice]

\* The filters dictionary of search_with_filters.
EmbFilters == [category : {None, "shoes", "jackets"}, color : {None, "purple"},
               min_price : MinPriceArgs, max_price : MaxPriceArgs]

EmbRequests ==
    [kind : {"search"}, query : EmbQueries, filters : {[category |-> None,
        color |-> None, min_price |-> NoPrice, max_price |-> NoPrice]},
     top_k : 0..MaxK]
    \cup [kind : {"search_with_filters"}, query : {"running", "jackets"},
          filters : EmbFilters, top_k : 0..MaxK]

NoEmbReq == [kind |-> "none", query |-> "", filters |-> [category |-> None,
                color |-> None, min_price |-> NoPrice, max_price |-> NoPrice],
             top_k |-> -1]

\* The category and price tests shared by _filter_indices (lines 221-228)
\* and search_with_filters (lines 283-288): the category is compared as
\* it is written, the bounds are inclusive.
EmbCatPrice(cat, category, min_p, max_p) ==
    SelectSeq(all_idx(cat), LAMBDA i :
        /\ Truthy(category) => cat[i].category = category
        /\ min_p # NoPrice => cat[i].price >= min_p
        /\ max_p # NoPrice => cat[i].price <= max_p)

\* (col in blob) or (col in clr): the color is written in the item's
\* lower-cased color; the titles and descriptions here name no color.
EmbColorHit(col, it) == StripLower(it.color) = col

\* search, lines 236-239: the candidates, and the whole catalog when
\* there is none.
EmbSearchCand(cat, q) ==
    LET c    == parse_query_constraints(q)
        idxs == EmbCatPrice(cat, c.cat, c.min_p, c.max_p)
    IN  IF idxs = <<>> THEN all_idx(cat) ELSE idxs

\* search_with_filters, lines 278-302: the candidates.
EmbFilterCand(cat, f) ==
    LET idxs   == EmbCatPrice(cat, f.category, f.min_price, f.max_price)
        strict == IF Truthy(f.color)
                  THEN SelectSeq(idxs, LAMBDA i : EmbColorHit(f.color, cat[i]))
                  ELSE <<>>
        cand   == IF strict # <<>> THEN strict ELSE idxs
    IN  IF cand = <<>> THEN all_idx(cat) ELSE cand

\* The vector of the query, from the backend in use.
EmbQueryVec(q) == IF q = "running" THEN <<10, 0>> ELSE <<0, 10>>

\* intent_terms is not empty: the query holds one of the listed words.
EmbIntentTerms(q) == IF q = "running" THEN {"running"} ELSE {}

\* sims over the candidates: the similarity, and in search_with_filters
\* the color boost and the tag boost.
EmbSims(cat, r, cand) ==
    [j \in 1..Len(cand) |->
        Dot(cat[cand[j]].emb, EmbQueryVec(r.query))
        + (IF r.kind = "search_with_filters" /\ Truthy(r.filters.color)
              /\ EmbColorHit(r.filters.color, cat[cand[j]])
           THEN EmbColorBoost ELSE 0)
        + (IF r.kind = "search_with_filters"
              /\ EmbIntentTerms(r.query) \cap cat[cand[j]].tags # {}
           THEN EmbTagBoost ELSE 0)]

\* The list search (lines 232-270) and search_with_filters (272-355)
\* return when the query is embedded: the candidates by descending sims,
\* cut at top_k.
EmbSearchResult(cat, ties, r) ==
    LET cand  == IF r.kind = "search" THEN EmbSearchCand(cat, r.query)
                 ELSE EmbFilterCand(cat, r.filters)
        sims  == EmbSims(cat, r, cand)
        order == Slice(ArgSortDesc(sims, ties), r.top_k)
    IN  IF r.kind = "search" /\ Len(cat) = 0 THEN <<>>
        ELSE [k \in 1..Len(order) |->
                [idx   |-> cand[order[k]],
                 item  |-> cat[cand[order[k]]],
                 score |-> sims[order[k]]]]

\* No EmbeddingIndex answers queries.
EmbQueryIdle ==
    /\ qCatalog = <<>>
    /\ qReq = NoEmbReq
    /\ qOut = <<>>

\* An EmbeddingIndex is loaded over a catalog.
EmbQueryBuilt ==
    /\ qCatalog \in Catalogs
    /\ qReq = NoEmbReq
    /\ qOut = <<>>

\* One call of search or search_with_filters that returns a list.
EmbQuery(r) ==
    /\ qReq = NoEmbReq
    /\ qReq' = r
    /\ qOut' = EmbSearchResult(qCatalog, sortTies, r)
    /\ UNCHANGED qCatalog
    /\ UNCHANGED notEmbQueryVars

\* The caller takes the result.
EmbQueryReturn ==
    /\ qReq # NoEmbReq
    /\ qReq' = NoEmbReq
    /\ qOut' = <<>>
    /\ UNCHANGED qCatalog
    /\ UNCHANGED notEmbQueryVars

-----------------------------------------------------------------------------
(* vision_search.py: images, catalog and encoders *)

\* The largest catalog a VisionIndex is built over, in items.
MaxVisItems == 3

\* _category_prior(scores, top_m=40)
TopM == 40

\* color_bonus[i] = 0.12
ColorBonus == 288

\* hist_sim = intersection * 0.25: a quarter of it
HistSimDiv == 4

\* priors = (cnt / total) * 0.15
PriorFull == 360

\* priors[best_c] += 0.05
BestNudge == 120

\* The images on disk and sent as queries.  clip and resnet are what
\* _OpenClipEncoder and _TorchvisionEncoder give for the image, of unit
\* length in fiftieths; hist is _hsv_hist of it over two bins, which sum
\* to One; dom is _dominant_color_name of it.
ImgA == [clip |-> <<40, 30>>, resnet |-> <<30, 40>>,
         hist |-> <<1200, 1200>>, dom |-> "red"]

ImgB == [clip |-> <<30, 40>>, resnet |-> <<40, 30>>,
         hist |-> <<2400, 0>>, dom |-> "black"]

ImgC == [clip |-> <<40, 30>>, resnet |-> <<40, 30>>,
         hist |-> <<0, 2400>>, dom |-> "blue"]

QueryImages == {ImgA, ImgB, ImgC}

\* _load_image returns an image: the file exists and is an image.
ImageLoads(rel) == rel \in {"a.jpg", "green_b.jpg", "b.jpg"}

\* _load_image(rel), where it loads.
_load_image(rel) == IF rel = "a.jpg" THEN ImgA ELSE ImgB

\* _color_from_filename(Path(rel).stem): the color word in the name.
_color_from_filename(rel) == IF rel = "green_b.jpg" THEN "green" ELSE None

VItemA == [category |-> "shoes", color |-> "red", image_path |-> "a.jpg"]

VItemB == [category |-> "shoes", color |-> "assorted",
           image_path |-> "a.jpg"]

VItemC == [category |-> "bags", color |-> "black",
           image_path |-> "green_b.jpg"]

VItemD == [category |-> "bags", color |-> "blue", image_path |-> None]

\* An item whose image has no color word in its name and is dark all
\* over: _rebuild takes its color from the image.
VItemE == [category |-> "bags", color |-> "black", image_path |-> "b.jpg"]

VisItemPool == {VItemA, VItemB, VItemC, VItemD}

VisCatalogs == UNION {[1..n -> VisItemPool] : n \in 0..MaxVisItems}

VisBackends == {"open_clip", "resnet50", "hsv"}

\* _hist_intersection: np.minimum(a, b).sum()
_hist_intersection(a, b) == Min(a[1], b[1]) + Min(a[2], b[2])

\* self.encoder.encode(img), for the encoder __init__ picked.
Encode(backend, img) ==
    IF backend = "open_clip" THEN img.clip
    ELSE IF backend = "resnet50" THEN img.resnet
    ELSE img.hist

\* self.embs @ q_emb for one row: the cosine of two unit vectors held in
\* fiftieths, in units of One.
Cosine(a, b) == ((a[1] * b[1] + a[2] * b[2]) * One) \div 2500

-----------------------------------------------------------------------------
(* VisionIndex._rebuild *)

\* The rows _rebuild gathers from item i on: one for each item whose
\* image loads, in catalog order.
RECURSIVE RebuildRows(_, _, _)
RebuildRows(cat, backend, i) ==
    IF i > Len(cat) THEN <<>>
    ELSE LET rel == cat[i].image_path
             img == _load_image(rel)
             fc  == _color_from_filename(rel)
         IN  (IF rel = None \/ ~ImageLoads(rel) THEN <<>>
              ELSE << [idx      |-> i,
                       category |-> cat[i].category,
                       color    |-> IF fc # None THEN fc ELSE img.dom,
                       emb      |-> Encode(backend, img),
                       hist     |-> img.hist] >>)
             \o RebuildRows(cat, backend, i + 1)

\* np.linalg.norm(self.embs, axis=1) raises when no row was gathered:
\* self.embs then has one axis only.
RebuildRaises(cat, backend) ==
    /\ backend \in {"open_clip", "resnet50"}
    /\ RebuildRows(cat, backend, 1) = <<>>

-----------------------------------------------------------------------------
(* VisionIndex._embed, _score, _category_prior, _search_image *)

\* _embed(img): the query's embedding, histogram and color.  The encoders
\* return unit vectors, so the division by the norm leaves them as is.
_embed(backend, img) ==
    [emb |-> Encode(backend, img), hist |-> img.hist, color |-> img.dom]

\* _score: base + color_bonus + hist_sim, one entry per row of meta.
_score(backend, meta, embs, hists, q) ==
    [j \in 1..Len(meta) |->
        (IF backend \in {"open_clip", "resnet50"}
         THEN Cosine(embs[j], q.emb)
         ELSE _hist_intersection(hists[j], q.hist))
        + (IF q.color # "assorted" /\ meta[j].color = q.color
           THEN ColorBonus ELSE 0)
        + (_hist_intersection(hists[j], q.hist) \div HistSimDiv)]

\* _category_prior(scores): the boost of each category, 0 for a category
\* not among the top TopM rows.  max(priors, key=priors.get) is the first
\* category met, in the order of the sort, among those counted most.
_category_prior(meta, ties, scores) ==
    LET order  == Slice(ArgSortDesc(scores, ties), Min(TopM, Len(scores)))
        cats   == {meta[order[k]].category : k \in 1..Len(order)}
        cnt(c) == Cardinality({k \in 1..Len(order) :
                                  meta[order[k]].category = c})
        first(c) == CHOOSE k \in 1..Len(order) :
                       /\ meta[order[k]].category = c
                       /\ \A l \in 1..(k - 1) : meta[order[l]].category # c
        total  == Len(order)
        best_c == CHOOSE c \in cats :
                     \A d \in cats \ {c} :
                        \/ cnt(c) > cnt(d)
                        \/ cnt(c) = cnt(d) /\ first(c) < first(d)
    IN  [c \in cats |-> ((cnt(c) * PriorFull) \div total)
                        + (IF c = best_c THEN BestNudge ELSE 0)]

\* _search_image(img, top_k): a copy of each item returned, with its
\* score and its color after the harmonizing (idx is the item's place in
\* self.catalog).
_search_image(backend, cat, meta, embs, hists, ties, img, top_k) ==
    LET q      == _embed(backend, img)
        base_scores == _score(backend, meta, embs, hists, q)
        cat_boost_map == _category_prior(meta, ties, base_scores)
        final  == [j \in 1..Len(meta) |->
                     base_scores[j]
                     + (IF meta[j].category \in DOMAIN cat_boost_map
                        THEN cat_boost_map[meta[j].category] ELSE 0)]
        order  == Slice(ArgSortDesc(final, ties),
                        Min(top_k * 3, Len(final)))
        results == Slice(order, top_k)
    IN  [k \in 1..Len(results) |->
            LET m  == meta[results[k]]
                it == cat[m.idx]
            IN  [idx   |-> m.idx,
                 score |-> final[results[k]],
                 category |-> it.category,
                 color |-> IF it.color \in {None, "", "assorted"}
                              /\ q.color \notin {"assorted", None}
                           THEN q.color ELSE it.color]]

-----------------------------------------------------------------------------
(* VisionIndex: the state machine *)

\* self.meta, self.embs and self.hists, of the rows gathered.
RowsMeta(rows) ==
    [j \in 1..Len(rows) |-> [idx |-> rows[j].idx,
                             category |-> rows[j].category,
                             color |-> rows[j].color]]

RowsEmbs(rows) == [j \in 1..Len(rows) |-> rows[j].emb]

RowsHists(rows) == [j \in 1..Len(rows) |-> rows[j].hist]

\* An empty cache directory.
NoVisFiles == [emb |-> [b \in VisBackends |-> NoFile], hists |-> NoFile,
               meta |-> NoFile]

\* _rebuild, lines 277-279: np.save(self.emb_path), np.save(self.hsv_path)
\* and the meta file; emb_path alone is named after the backend.
SavedFiles(files, backend, rows) ==
    [emb   |-> [files.emb EXCEPT ![backend] = File(RowsEmbs(rows))],
     hists |-> File(RowsHists(rows)),
     meta  |-> File(RowsMeta(rows))]

\* No image search is running.
NoVisReq == [img |-> ImgA, top_k |-> -1]

VisRequests == [img : QueryImages, top_k : 0..MaxK]

\* No VisionIndex is constructed.
VisIdle ==
    /\ vFiles = NoVisFiles
    /\ vBackend = "none"
    /\ vCatalog = <<>>
    /\ vMeta = <<>>
    /\ vEmbs = <<>>
    /\ vHists = <<>>
    /\ vReq = NoVisReq
    /\ vOut = <<>>
    /\ vMemoReq = NoVisReq
    /\ vMemoOut = <<>>
    /\ vBetween = FALSE

\* __init__ with no cache: the encoder is picked by what is installed,
\* the catalog is read and _rebuild fills embs, hists and meta and saves
\* them.
VisBuiltOver(cats) ==
    /\ vBackend \in VisBackends
    /\ vCatalog \in cats
    /\ ~RebuildRaises(vCatalog, vBackend)
    /\ LET rows == RebuildRows(vCatalog, vBackend, 1)
       IN  /\ vMeta = RowsMeta(rows)
           /\ vEmbs = RowsEmbs(rows)
           /\ vHists = RowsHists(rows)
           /\ vFiles = SavedFiles(NoVisFiles, vBackend, rows)
    /\ vReq = NoVisReq
    /\ vOut = <<>>
    /\ vMemoReq = NoVisReq
    /\ vMemoOut = <<>>
    /\ vBetween = FALSE

VisBuilt == VisBuiltOver(VisCatalogs)

\* The catalogs a cache directory is used with, one after another.
MaxCacheItems == 1

VisCacheCatalogs ==
    UNION {[1..n -> {VItemA, VItemC}] : n \in 0..MaxCacheItems}

\* __init__, lines 177-216: the catalog is read, the encoder is picked by
\* what is installed (backend), and the index is rebuilt, or read from
\* the three cache files when all of them exist and force_rebuild is
\* off.  A _rebuild that raises leaves no index and writes nothing.
VisConstruct(c, backend, force) ==
    /\ vReq = NoVisReq
    /\ LET needs == force \/ ~(/\ vFiles.emb[backend].exists
                                /\ vFiles.hists.exists
                                /\ vFiles.meta.exists)
           rows  == RebuildRows(c, backend, 1)
       IN  IF needs /\ RebuildRaises(c, backend)
           THEN /\ vBackend' = "none"
                /\ vCatalog' = <<>>
                /\ vMeta' = <<>>
                /\ vEmbs' = <<>>
                /\ vHists' = <<>>
                /\ UNCHANGED vFiles
           ELSE IF needs
           THEN /\ vBackend' = backend
                /\ vCatalog' = c
                /\ vMeta' = RowsMeta(rows)
                /\ vEmbs' = RowsEmbs(rows)
                /\ vHists' = RowsHists(rows)
                /\ vFiles' = SavedFiles(vFiles, backend, rows)
           ELSE /\ vBackend' = backend
                /\ vCatalog' = c
                /\ vMeta' = vFiles.meta.data
                /\ vEmbs' = vFiles.emb[backend].data
                /\ vHists' = vFiles.hists.data
                /\ UNCHANGED vFiles
    /\ UNCHANGED <<vReq, vOut, vMemoReq, vMemoOut, vBetween>>
    /\ UNCHANGED notVisVars

\* One call of search_image_path on the index.
SearchImage(r) ==
    /\ vBackend # "none"
    /\ vReq = NoVisReq
    /\ vReq' = r
    /\ vOut' = _search_image(vBackend, vCatalog, vMeta, vEmbs, vHists,
                             sortTies, r.img, r.top_k)
    /\ vBetween' = (vMemoReq # NoVisReq /\ (vBetween \/ r # vMemoReq))
    /\ UNCHANGED <<vBackend, vCatalog, vMeta, vEmbs, vHists, vFiles,
                   vMemoReq, vMemoOut>>
    /\ UNCHANGED notVisVars

\* The caller takes the result; the index is idle again.
ReturnImage ==
    /\ vReq # NoVisReq
    /\ vReq' = NoVisReq
    /\ vOut' = <<>>
    /\ UNCHANGED <<vBackend, vCatalog, vMeta, vEmbs, vHists, vFiles,
                   vMemoReq, vMemoOut, vBetween>>
    /\ UNCHANGED notVisVars

\* The caller takes the result and keeps it, to compare a later run of
\* the same call against it.
RememberImage ==
    /\ vReq # NoVisReq
    /\ vMemoReq = NoVisReq
    /\ vMemoReq' = vReq
    /\ vMemoOut' = vOut
    /\ vReq' = NoVisReq
    /\ vOut' = <<>>
    /\ UNCHANGED <<vBackend, vCatalog, vMeta, vEmbs, vHists, vFiles,
                   vBetween>>
    /\ UNCHANGED notVisVars

-----------------------------------------------------------------------------
(* image_search.py: ImageSearch *)

\* The largest product list an ImageSearch is made over.
MaxProducts == 2

\* thr = max(0.22, ...): the floor.
ThrFloor == 528

\* thr = max(..., 0.72 * max_s): the share of the best score, in hundredths.
ThrShare == 72

\* order[: max(top_k * 4, 16)]
PoolFactor == 4

PoolFloor == 16

\* keep[:8]
TopFew == 8

\* base + 0.05
DomCatBoost == 120

\* Products: image_url is "" when the product has none; iv is what CLIP's
\* image encoder gives the product's image and tv what its text encoder
\* gives _product_text(p), both of unit length in fiftieths.
ProdA == [category |-> "shoes", image_url |-> "pa.jpg",
          iv |-> <<40, 30>>, tv |-> <<30, 40>>]

ProdB == [category |-> "Bags", image_url |-> "",
          iv |-> <<0, 0>>, tv |-> <<50, 0>>]

ProdC == [category |-> "shoes", image_url |-> "pc.jpg",
          iv |-> <<30, 40>>, tv |-> <<40, 30>>]

ProductPool == {ProdA, ProdB, ProdC}

ProductLists == UNION {[1..n -> ProductPool] : n \in 0..MaxProducts}

\* The image URLs searched by: iv is the image encoder's vector of the
\* image behind the URL, tv the text encoder's vector of the URL string.
UrlQueries == {[url |-> "q1.jpg", iv |-> <<40, 30>>, tv |-> <<30, 40>>],
               [url |-> "q2.jpg", iv |-> <<0, 50>>, tv |-> <<50, 0>>]}

\* What _safe_get and the decoding of the body come to: "ok", "failed"
\* (network error, timeout, non-200 status or empty body: _safe_get
\* returns None) or "garbled" (a body that is no image).
FetchOutcomes == {"ok", "failed", "garbled"}

ImageRequests == [q : UrlQueries, fetch : FetchOutcomes, top_k : 0..MaxK]

NoImageReq == [q |-> [url |-> "", iv |-> <<0, 0>>, tv |-> <<0, 0>>],
               fetch |-> "none", top_k |-> -1]

NoImageObs == [qenc |-> "none", venc |-> <<>>]

\* search_by_image_url, lines 88-96: the query vector and the encoder
\* that gave it.
ImageQueryVec(r) ==
    IF r.fetch = "ok" THEN [enc |-> "image", v |-> r.q.iv]
    ELSE [enc |-> "text", v |-> r.q.tv]

\* _catalog_vector, for each product: the cached image vector; else the
\* vector of the image when it is fetched now (the products in got); else
\* the vector of the product's text.
CatalogVectors(products, imgCache, got) ==
    [i \in 1..Len(products) |->
        IF i \in imgCache \cup got
        THEN [enc |-> "image", v |-> products[i].iv]
        ELSE [enc |-> "text", v |-> products[i].tv]]

\* sorted(xs, key=..., reverse=True): descending, equal keys in the
\* order they had.
SortedDesc(xs, key) ==
    LET order == ArgSortDesc([j \in 1..Len(xs) |-> key[xs[j]]], "asc")
    IN  [k \in 1..Len(xs) |-> xs[order[k]]]

\* str(p.get("category", "")).lower()
LowerCat(p) == IF p.category = "Bags" THEN "bags" ELSE p.category

\* search_by_image_url, lines 98-140, from the vectors on: the indexes of
\* the products returned, in order.
ImageRank(products, cvecs, qv, top_k) ==
    LET n      == Len(cvecs)
        scores == [i \in 1..n |-> Cosine(cvecs[i].v, qv)]
        order  == Slice(SortedDesc([i \in 1..n |-> i], scores),
                        Max(top_k * PoolFactor, PoolFloor))
        max_s  == IF order = <<>> THEN 0
                  ELSE scores[order[1]]
        \* scores[i] >= thr and base > thr, thr = max(0.22, 0.72 * max_s)
        AtLeastThr(s) == s >= ThrFloor /\ s * 100 >= ThrShare * max_s
        AboveThr(s)   == s > ThrFloor /\ s * 100 > ThrShare * max_s
        keep   == SelectSeq(order, LAMBDA i : AtLeastThr(scores[i]))
        few    == Slice(keep, TopFew)
        cnt(c) == Cardinality({j \in 1..Len(few) :
                                  LowerCat(products[few[j]]) = c})
        first(c) == CHOOSE j \in 1..Len(few) :
                       /\ LowerCat(products[few[j]]) = c
                       /\ \A l \in 1..(j - 1) : LowerCat(products[few[l]]) # c
        cats   == {LowerCat(products[few[j]]) : j \in 1..Len(few)}
        dom_cat == CHOOSE c \in cats : \A d \in cats \ {c} :
                      \/ cnt(c) > cnt(d)
                      \/ cnt(c) = cnt(d) /\ first(c) < first(d)
        boost  == [i \in 1..n |->
                     scores[i] + (IF keep # <<>>
                                     /\ LowerCat(products[i]) = dom_cat
                                     /\ AboveThr(scores[i])
                                  THEN DomCatBoost ELSE 0)]
    IN  IF n = 0 THEN <<>>
        ELSE Slice(SortedDesc(keep, boost), top_k)

\* No ImageSearch is in use.
ImageIdle ==
    /\ iProducts = <<>>
    /\ iImgCache = {}
    /\ iTxtCache = {}
    /\ iReq = NoImageReq
    /\ iOut = <<>>
    /\ iObs = NoImageObs

\* __init__: the products are kept, the caches are empty.
ImageBuilt ==
    /\ iProducts \in ProductLists
    /\ iImgCache = {}
    /\ iTxtCache = {}
    /\ iReq = NoImageReq
    /\ iOut = <<>>
    /\ iObs = NoImageObs

\* One call of search_by_image_url: the fetch of the query image ends as
\* r.fetch says, and got are the products whose image is fetched and
\* embedded during this call.
SearchByImageUrl(r, got) ==
    /\ iReq = NoImageReq
    /\ got \subseteq {i \in 1..Len(iProducts) :
                         iProducts[i].image_url # "" /\ i \notin iImgCache}
    /\ LET cvecs == CatalogVectors(iProducts, iImgCache, got)
           qv   == ImageQueryVec(r)
       IN  /\ iOut' = ImageRank(iProducts, cvecs, qv.v, r.top_k)
           /\ iObs' = [qenc |-> qv.enc,
                       venc |-> [i \in 1..Len(cvecs) |-> cvecs[i].enc]]
    /\ iImgCache' = iImgCache \cup got
    /\ iTxtCache' = iTxtCache \cup
                      ((1..Len(iProducts)) \ (iImgCache \cup got))
    /\ iReq' = r
    /\ UNCHANGED iProducts
    /\ UNCHANGED notImageVars

\* The caller takes the list.
ImageReturn ==
    /\ iReq # NoImageReq
    /\ iReq' = NoImageReq
    /\ iOut' = <<>>
    /\ iObs' = NoImageObs
    /\ UNCHANGED <<iProducts, iImgCache, iTxtCache>>
    /\ UNCHANGED notImageVars

-----------------------------------------------------------------------------
(* vision_search.py and catalog_loader.py: _dominant_color_name *)

\* The most regions an image is made of.  An image is a list of regions
\* of equal area, each of one color.
MaxPixels == 2

\* Hue in degrees, saturation and value in hundredths.
Hues == {0, 100, 220}

Saturations == {0, 28, 100}

Values == {10, 25, 95}

Pixels == [h : Hues, s : Saturations, v : Values]

ColorImages == UNION {[1..n -> Pixels] : n \in 1..MaxPixels}

RECURSIVE SumOver(_, _, _)
SumOver(img, f, i) ==
    IF i > Len(img) THEN 0
    ELSE (IF f = "s" THEN img[i].s ELSE img[i].v) + SumOver(img, f, i + 1)

\* bins = [0,15,45,75,150,210,270,315,345,360]: the bin np.histogram puts
\* a hue in, counted from 0.
HueBin(h) ==
    IF h < 15 THEN 0
    ELSE IF h < 45 THEN 1
    ELSE IF h < 75 THEN 2
    ELSE IF h < 150 THEN 3
    ELSE IF h < 210 THEN 4
    ELSE IF h < 270 THEN 5
    ELSE IF h < 315 THEN 6
    ELSE IF h < 345 THEN 7
    ELSE 8

\* The name given to the bin with the most votes.
BinColor(idx) ==
    IF idx = 0 \/ idx >= 7 THEN "red"
    ELSE IF idx = 1 THEN "orange"
    ELSE IF idx = 2 THEN "yellow"
    ELSE IF idx = 3 THEN "green"
    ELSE IF idx = 4 THEN "blue"
    ELSE "purple"

\* mask = (S >= 0.25) & (V >= 0.25)
InMask(p) == p.s >= 25 /\ p.v >= 25

\* The hue voting, lines 78-98: too few pixels in the mask give a neutral
\* by mean brightness; else np.argmax(hist), the first bin of the most
\* votes.
HueVote(img) ==
    LET n       == Len(img)
        sum_v   == SumOver(img, "v", 1)
        masked  == {i \in 1..n : InMask(img[i])}
        votes(b) == Cardinality({i \in masked : HueBin(img[i].h) = b})
        idx     == CHOOSE b \in 0..8 :
                      /\ \A c \in 0..8 : votes(c) <= votes(b)
                      /\ \A c \in 0..(b - 1) : votes(c) < votes(b)
    IN  IF Cardinality(masked) * 100 < 3 * n
        THEN (IF sum_v > 35 * n THEN "gray" ELSE "black")
        ELSE BinColor(idx)

\* A classifier that votes on the hue of the masked pixels first and
\* looks at the means only when the mask is empty.
_dominant_color_name_HueFirst(img) ==
    IF \E i \in 1..Len(img) : InMask(img[i]) THEN HueVote(img)
    ELSE IF SumOver(img, "v", 1) < 18 * Len(img) THEN "black"
    ELSE IF SumOver(img, "v", 1) > 90 * Len(img) THEN "white"
    ELSE "gray"

\* _dominant_color_name: the neutrals by the means, lines 69-76, then
\* the hue voting.
_dominant_color_name(img) ==
    LET n     == Len(img)
        sum_s == SumOver(img, "s", 1)
        sum_v == SumOver(img, "v", 1)
    IN  IF sum_v < 18 * n /\ sum_s < 25 * n THEN "black"
        ELSE IF sum_v > 90 * n /\ sum_s < 8 * n THEN "white"
        ELSE IF sum_s < 15 * n THEN "gray"
        ELSE HueVote(img)

\* No image is being classified.
ColorIdle ==
    /\ cImg = <<>>
    /\ cColor = "none"

\* An image is at hand.
ColorInit ==
    /\ cImg \in ColorImages
    /\ cColor = "none"

\* One call of _dominant_color_name on the image.
Classify ==
    /\ cColor = "none"
    /\ cImg # <<>>
    /\ cColor' = _dominant_color_name(cImg)
    /\ UNCHANGED cImg
    /\ UNCHANGED notColorVars

\* The caller takes the name.
ClassifyReturn ==
    /\ cColor # "none"
    /\ cColor' = "none"
    /\ UNCHANGED cImg
    /\ UNCHANGED notColorVars

-----------------------------------------------------------------------------
(* agent.py: Agent.chat *)

\* The catalogs of the TextIndex an Agent is given.
MaxAgentItems == 2

\* k = 12
DefaultK == 12

\* p <= float(max_price) + 15.0
NearWindow == 15

\* if len(near) >= 5: break
NearMax == 5

UserTexts == {"shoes under 40", "Running", "shoes between 50 and 20", "hi",
              "http://x/a.jpg"}

\* _extract_prices_from_text(t): (min_price, max_price).
_extract_prices_from_text(t) ==
    CASE t = "shoes under 40"          -> <<NoPrice, 40>>
      [] t = "shoes between 50 and 20" -> <<20, 50>>
      [] OTHER                         -> <<NoPrice, NoPrice>>

\* _extract_category_fallback(t)
_extract_category_fallback(t) ==
    IF t \in {"shoes under 40", "shoes between 50 and 20"} THEN "shoes"
    ELSE None

\* _IMG_URL.search(user_text)
HasImageUrl(t) == t = "http://x/a.jpg"

\* _maybe_smalltalk(user_text) answers: one of the four patterns matches.
IsSmalltalk(t) == t = "hi"

\* "under" in user_text.lower()
SaysUnder(t) == t = "shoes under 40"

\* What model.generate_content gives: it raises, it answers with no
\* search_text call, or it calls search_text with args.  An absent
\* argument is None, NoPrice for a price and 0 for k.
NoArgs == [q |-> None, category |-> None, color |-> None,
           min_price |-> NoPrice, max_price |-> NoPrice, k |-> 0]

GeminiArgs == [q : {None, "Running"}, category : {None, "Shoes"},
               color : {None, "purple"}, min_price : {NoPrice, 20},
               max_price : {NoPrice, 0, 50}, k : {0, 1}]

GeminiReplies ==
    {[kind |-> "raise", args |-> NoArgs], [kind |-> "text", args |-> NoArgs]}
    \cup {[kind |-> "call", args |-> a] : a \in GeminiArgs}

NoAgentReq == [text |-> None, gemini |-> [kind |-> "none", args |-> NoArgs]]

NoAgentOut == [raised |-> FALSE, intent |-> "none", results |-> <<>>,
               max_price |-> NoPrice]

\* a or b, for an Optional[str].
Or(a, b) == IF Truthy(a) THEN a ELSE b

\* Lines 147-197: q, category, color, min_price, max_price and k when the
\* search runs.
ChatArgs(t, g) ==
    LET prices == _extract_prices_from_text(t)
        called == g.kind = "call"
        a      == g.args
    IN  [query     |-> IF called THEN Or(a.q, t) ELSE t,
         category  |-> IF called
                       THEN Or(a.category, _extract_category_fallback(t))
                       ELSE _extract_category_fallback(t),
         color     |-> IF called THEN Or(a.color, None) ELSE None,
         min_price |-> IF called /\ prices[1] = NoPrice
                       THEN a.min_price ELSE prices[1],
         max_price |-> IF called /\ prices[2] = NoPrice
                       THEN a.max_price ELSE prices[2],
         top_k     |-> IF called /\ a.k # 0 THEN a.k ELSE DefaultK]

\* pool.sort(key=price): sorted() is stable.
ByPriceAsc(cat, pool) ==
    LET n == Len(pool)
        before(a, b) == \/ cat[pool[a]].price < cat[pool[b]].price
                        \/ /\ cat[pool[a]].price = cat[pool[b]].price
                           /\ a < b
        rank(p) == Cardinality({a \in 1..n : before(a, p)})
    IN  [k \in 1..n |-> pool[CHOOSE p \in 1..n : rank(p) = k - 1]]

\* Lines 212-221: the items of the category priced just above the budget.
Near(cat, category, max_price) ==
    LET pool == SelectSeq(all_idx(cat), LAMBDA i :
                    category = None \/ cat[i].category = category)
        above == SelectSeq(ByPriceAsc(cat, pool), LAMBDA i :
                    /\ cat[i].price > max_price
                    /\ cat[i].price <= max_price + NearWindow)
    IN  IF max_price = NoPrice THEN <<>>
        ELSE [k \in 1..Min(Len(above), NearMax) |->
                [idx |-> above[k], item |-> cat[above[k]]]]

\* Lines 199-247: the search, the guard on max_price and the reply.
ChatSearch(cat, vv, ties, t, g) ==
    LET r     == ChatArgs(t, g)
        found == search_with_filters(cat, vv, ties, r)
        items == IF r.max_price = NoPrice THEN found.items
                 ELSE SelectSeq(found.items, LAMBDA it :
                          it.item.price <= r.max_price)
        near  == Near(cat, r.category, r.max_price)
    IN  IF found.raised
        THEN [raised |-> TRUE, intent |-> "none", results |-> <<>>,
              max_price |-> r.max_price]
        ELSE IF items = <<>> /\ (r.max_price # NoPrice \/ SaysUnder(t))
        THEN IF near # <<>>
             THEN [raised |-> FALSE, intent |-> "recommend",
                   results |-> near, max_price |-> r.max_price]
             ELSE [raised |-> FALSE, intent |-> "chat", results |-> <<>>,
                   max_price |-> r.max_price]
        ELSE IF items # <<>>
        THEN [raised |-> FALSE, intent |-> "recommend",
              results |-> [k \in 1..Len(items) |->
                             [idx |-> items[k].idx, item |-> items[k].item]],
              max_price |-> r.max_price]
        ELSE [raised |-> FALSE, intent |-> "chat", results |-> <<>>,
              max_price |-> r.max_price]

\* No Agent is in use.
AgentIdle ==
    /\ aReq = NoAgentReq
    /\ aOut = NoAgentOut

\* One call of chat.  fetch is whether requests.get of the image URL
\* gives an image; the image it gives is ImgA.
Chat(t, g, fetch) ==
    /\ aReq = NoAgentReq
    /\ aReq' = [text |-> t, gemini |-> g]
    /\ aOut' =
         IF HasImageUrl(t)
         THEN [raised |-> FALSE, intent |-> "image_search",
               results |-> IF fetch
                           THEN _search_image(vBackend, vCatalog, vMeta,
                                    vEmbs, vHists, sortTies, ImgA, DefaultK)
                           ELSE <<>>,
               max_price |-> NoPrice]
         ELSE IF IsSmalltalk(t)
         THEN [raised |-> FALSE, intent |-> "smalltalk", results |-> <<>>,
               max_price |-> NoPrice]
         ELSE ChatSearch(catalog, vecs, sortTies, t, g)
    /\ UNCHANGED notAgentVars

\* The caller takes the reply.
ChatReturn ==
    /\ aReq # NoAgentReq
    /\ aReq' = NoAgentReq
    /\ aOut' = NoAgentOut
    /\ UNCHANGED notAgentVars

-----------------------------------------------------------------------------
(* text_index.py: search_with_filters, one statement at a time *)

\* No call is running.
StepIdle ==
    /\ sReq = NoReq
    /\ sPc = "idle"
    /\ sQv = Unset
    /\ sSims = Unset
    /\ sCand = Unset
    /\ sOut = NoOut

\* The call is made: q = (query or "popular picks"), line 116.
StepCall(r) ==
    /\ sPc = "idle"
    /\ sReq = NoReq
    /\ sReq' = r
    /\ sPc' = "encode"
    /\ UNCHANGED <<sQv, sSims, sCand, sOut>>
    /\ UNCHANGED notStepVars

\* Line 117: qv = self._encode_query(q)
StepEncode ==
    /\ sPc = "encode"
    /\ sQv' = Attr(_encode_query(QueryText(sReq.query)))
    /\ sPc' = "sims"
    /\ UNCHANGED <<sReq, sSims, sCand, sOut>>
    /\ UNCHANGED notStepVars

\* Line 118: sims = (self.vecs @ qv)
StepSims ==
    /\ sPc = "sims"
    /\ sSims' = Attr([i \in 1..Len(vecs) |-> Dot(vecs[i], sQv.data)])
    /\ sPc' = "filter"
    /\ UNCHANGED <<sReq, sQv, sCand, sOut>>
    /\ UNCHANGED notStepVars

\* Lines 120-125: the filters, the retry without the color, and the
\* return of [] when no item is left.
StepFilter ==
    /\ sPc = "filter"
    /\ sCand' = Attr(CandidateIdx(catalog, sReq))
    /\ IF sCand'.data = <<>>
       THEN sPc' = "done" /\ sOut' = [raised |-> FALSE, items |-> <<>>]
       ELSE sPc' = "rank" /\ sOut' = sOut
    /\ UNCHANGED <<sReq, sQv, sSims>>
    /\ UNCHANGED notStepVars

\* Lines 127-155: base = sims[cand], the boosts, the sort and the copies.
StepRank ==
    /\ sPc = "rank"
    /\ LET cand  == sCand.data
           q     == QueryText(sReq.query)
           score == [j \in 1..Len(cand) |->
                       sSims.data[cand[j]]
                       + tag_boost(catalog[cand[j]], q)
                       + price_boost(catalog[cand[j]], sReq.max_price)]
           order == Slice(ArgSortDesc(score, sortTies), sReq.top_k)
       IN  sOut' =
             IF \E j \in 1..Len(cand) :
                    PriceBoostRaises(catalog[cand[j]], sReq.max_price)
             THEN [raised |-> TRUE, items |-> <<>>]
             ELSE [raised |-> FALSE,
                   items  |-> [k \in 1..Len(order) |->
                                 [idx   |-> cand[order[k]],
                                  item  |-> catalog[cand[order[k]]],
                                  score |-> score[order[k]]]]]
    /\ sPc' = "done"
    /\ UNCHANGED <<sReq, sQv, sSims, sCand>>
    /\ UNCHANGED notStepVars

\* The caller takes the result; qv, sims and idx are locals of the call.
StepReturn ==
    /\ sPc = "done"
    /\ sReq' = NoReq
    /\ sPc' = "idle"
    /\ sQv' = Unset
    /\ sSims' = Unset
    /\ sCand' = Unset
    /\ sOut' = NoOut
    /\ UNCHANGED notStepVars

-----------------------------------------------------------------------------
(* text_index.py: the TF-IDF encoder used when sentence_transformers is *)
(* not installed                                                         *)

\* Items whose text shares no word with a shoe's.
ItemE == [category |-> "bags", color |-> "purple", price |-> 90,
          tags |-> {}, emb |-> <<0, 20>>]

ItemF == [category |-> "bags", color |-> "", price |-> 20,
          tags |-> {}, emb |-> <<20, 0>>]

\* The words TfidfVectorizer's analyzer finds in _text_blob(it): the
\* category, the color and the tag, lower-cased; the items of the model
\* have no title and no description, and at most one tag.
BlobTokens(it) ==
    LET one(s) == IF Truthy(s) THEN <<StripLower(s)>> ELSE <<>>
    IN  one(it.category) \o one(it.color)
        \o (IF it.tags = {} THEN <<>> ELSE <<CHOOSE t \in it.tags : TRUE>>)

\* The words the analyzer finds in q or "popular picks".
QueryTokens(q) ==
    CASE q = "Running"        -> <<"running">>
      [] q = "popular picks"  -> <<"popular", "picks">>
      [] q = "purple running" -> <<"purple", "running">>
      [] OTHER                -> <<>>

\* ngram_range=(1,2): the words and the pairs of adjacent words.
Terms(toks) ==
    {<<toks[i]>> : i \in 1..Len(toks)}
    \cup {<<toks[i], toks[i + 1]>> : i \in 1..(Len(toks) - 1)}

\* How often a term occurs in a text.
Tf(term, toks) ==
    Cardinality({i \in 1..(Len(toks) - Len(term) + 1) :
                    SubSeq(toks, i, i + Len(term) - 1) = term})

\* The number of items whose text holds the term.
Df(cat, term) ==
    Cardinality({i \in 1..Len(cat) : Tf(term, BlobTokens(cat[i])) > 0})

\* fit: min_df=1, max_df=0.95 drops a term found in more than 95% of the
\* items.
Vocabulary(cat) ==
    {t \in UNION {Terms(BlobTokens(cat[i])) : i \in 1..Len(cat)} :
        Df(cat, t) * 100 <= 95 * Len(cat)}

\* fit_transform raises ValueError: max_df * n_doc is under min_df, or no
\* term is left.
TfidfRaises(cat) == 95 * Len(cat) < 100 \/ Vocabulary(cat) = {}

\* ln(k), in score units.
LnOne(k) ==
    CASE k = 1 -> 0
      [] k = 2 -> 1664
      [] k = 3 -> 2637
      [] k = 4 -> 3327
      [] k = 5 -> 3863
      [] k = 6 -> 4300

\* smooth_idf: idf(t) = ln((1 + n) / (1 + df(t))) + 1
Idf(cat, t) == LnOne(1 + Len(cat)) - LnOne(1 + Df(cat, t)) + One

\* The largest r between lo and hi with r * r <= n.
RECURSIVE SqrtBetween(_, _, _)
SqrtBetween(n, lo, hi) ==
    IF lo >= hi THEN lo
    ELSE LET mid == (lo + hi + 1) \div 2
         IN  IF mid * mid <= n THEN SqrtBetween(n, mid, hi)
             ELSE SqrtBetween(n, lo, mid - 1)

RECURSIVE SumSquares(_, _)
SumSquares(w, ts) ==
    IF ts = {} THEN 0
    ELSE LET t == CHOOSE x \in ts : TRUE
         IN  w[t] * w[t] + SumSquares(w, ts \ {t})

\* np.linalg.norm
Norm(w) == SqrtBetween(SumSquares(w, DOMAIN w), 0, 40000)

\* transform: tf * idf over the vocabulary, divided by its norm; a text
\* with no term of the vocabulary gives the zero vector.
TfidfVector(cat, toks) ==
    LET w == [t \in Vocabulary(cat) |-> Tf(t, toks) * Idf(cat, t)]
        n == Norm(w)
    IN  [t \in Vocabulary(cat) |-> IF n = 0 THEN 0 ELSE (w[t] * One) \div n]

\* self.vecs, lines 66-82.
TfidfVecs(cat) ==
    [i \in 1..Len(cat) |-> TfidfVector(cat, BlobTokens(cat[i]))]

\* _enc(q), lines 83-86.
_enc(cat, q) == TfidfVector(cat, QueryTokens(q))

RECURSIVE DotOver(_, _, _)
DotOver(a, b, ts) ==
    IF ts = {} THEN 0
    ELSE LET t == CHOOSE x \in ts : TRUE
         IN  a[t] * b[t] + DotOver(a, b, ts \ {t})

\* search_with_filters with the TF-IDF encoder: sims = self.vecs @ qv,
\* then the filters, the boosts and the sort.
search_tfidf(cat, vv, ties, r) ==
    LET q     == QueryText(r.query)
        qv    == _enc(cat, q)
        sims  == [i \in 1..Len(vv) |-> DotOver(vv[i], qv, DOMAIN qv) \div One]
        cand  == CandidateIdx(cat, r)
        score == [j \in 1..Len(cand) |->
                    sims[cand[j]] + tag_boost(cat[cand[j]], q)
                                  + price_boost(cat[cand[j]], r.max_price)]
        order == Slice(ArgSortDesc(score, ties), r.top_k)
    IN  IF cand = <<>> THEN [raised |-> FALSE, items |-> <<>>]
        ELSE IF \E j \in 1..Len(cand) :
                    PriceBoostRaises(cat[cand[j]], r.max_price)
        THEN [raised |-> TRUE, items |-> <<>>]
        ELSE [raised |-> FALSE,
              items  |-> [k \in 1..Len(order) |->
                            [idx   |-> cand[order[k]],
                             item  |-> cat[cand[order[k]]],
                             score |-> score[order[k]]]]]

-----------------------------------------------------------------------------
(* text_index.py: a TextIndex constructed after the catalog changed *)

\* The catalogs of two generations compared.
MaxGenItems == 3

GenItemPool == {ItemA, ItemE, ItemF}

GenCatalogs == UNION {[1..n -> GenItemPool] : n \in 0..MaxGenItems}

\* The calls replayed on the two generations.
GenRequests == [query : {"", "purple running"}, category : {None, "Shoes"},
                color : {None, "purple"}, min_price : {NoPrice},
                max_price : {NoPrice, 50}, top_k : {MaxK}]

\* __init__: the vectors of the catalog, by the encoder installed.
GenVecs(st, c) == IF st THEN BuildVecs(c) ELSE TfidfVecs(c)

\* __init__ raises: TfidfVectorizer.fit_transform does.
GenRaises(st, c) == ~st /\ TfidfRaises(c)

\* No earlier generation.
GenIdle ==
    /\ gCatalog = Unset
    /\ gVecs = <<>>
    /\ USE_ST = TRUE

\* A TextIndex constructed over an empty cache directory.
GenBuilt ==
    /\ USE_ST \in BOOLEAN
    /\ catalog \in GenCatalogs
    /\ ~GenRaises(USE_ST, catalog)
    /\ vecs = GenVecs(USE_ST, catalog)
    /\ sortTies \in {"asc", "desc"}
    /\ req = NoReq
    /\ out = NoOut
    /\ memoReq = NoReq
    /\ memoOut = NoOut
    /\ between = FALSE
    /\ gCatalog = Unset
    /\ gVecs = <<>>

\* One call of search_with_filters, with the encoder installed.
GenSearch(r) ==
    /\ req = NoReq
    /\ req' = r
    /\ out' = IF USE_ST THEN search_with_filters(catalog, vecs, sortTies, r)
              ELSE search_tfidf(catalog, vecs, sortTies, r)
    /\ between' = (memoReq # NoReq /\ (between \/ r # memoReq))
    /\ UNCHANGED <<catalog, vecs, sortTies, memoReq, memoOut>>
    /\ UNCHANGED notTextVars

\* The catalog file changes and a TextIndex is constructed anew over an
\* empty cache directory or with force_rebuild: the vectors are encoded
\* from the new catalog.
Regenerate(c) ==
    /\ gCatalog = Unset
    /\ memoReq # NoReq
    /\ req = NoReq
    /\ ~GenRaises(USE_ST, c)
    /\ gCatalog' = Attr(catalog)
    /\ gVecs' = vecs
    /\ catalog' = c
    /\ vecs' = GenVecs(USE_ST, c)
    /\ UNCHANGED <<USE_ST, sortTies, req, out, memoReq, memoOut, between>>
    /\ UNCHANGED notGenVars

\* The components added after the searches are not in use.
LaterIdle == AgentIdle /\ StepIdle /\ GenIdle

-----------------------------------------------------------------------------
(* Specifications *)

\* No TextIndex is in use.
TextIdle ==
    /\ catalog = <<>>
    /\ vecs = <<>>
    /\ sortTies = "asc"
    /\ req = NoReq
    /\ out = NoOut
    /\ memoReq = NoReq
    /\ memoOut = NoOut
    /\ between = FALSE

\* The components added after the three indexes are not in use.
RestIdle == EmbQueryIdle /\ ImageIdle /\ ColorIdle /\ LaterIdle

InitText == TextBuilt /\ EmbIdle /\ VisIdle /\ RestIdle

NextText == (\E r \in Requests : SearchText(r)) \/ ReturnText

SpecText == InitText /\ [][NextText]_vars

\* The calls replayed for determinism: those whose candidates can tie.
DetRequests == {r \in Requests : r.min_price = NoPrice /\ r.top_k = MaxK
                                 /\ r.category # "hats" /\ r.color # "mauve"}

DetVisRequests == {r \in VisRequests : r.top_k = MaxK}

\* The two indexes share no state: a behaviour replays calls on the one
\* that is constructed.
InitDet ==
    /\ TextBuilt
    /\ EmbIdle
    /\ VisIdle \/ (catalog = <<>> /\ VisBuilt)
    /\ RestIdle

NextDet ==
    \/ vBackend = "none" /\ \E r \in DetRequests : SearchText(r)
    \/ vBackend = "none" /\ ReturnText
    \/ vBackend = "none" /\ RememberText
    \/ \E r \in DetVisRequests : SearchImage(r)
    \/ ReturnImage
    \/ RememberImage

SpecDet == InitDet /\ [][NextDet]_vars

InitEmb == EmbIdle /\ TextIdle /\ VisIdle /\ RestIdle

NextEmb ==
    \/ \E c \in EmbCatalogs, key \in BOOLEAN, force \in BOOLEAN :
            ConstructBuild(c, key, force) /\ UNCHANGED notEmbVars
    \/ \E c \in EmbCatalogs, key \in BOOLEAN :
            ConstructLoad(c, key) /\ UNCHANGED notEmbVars
    \/ BuildStart /\ UNCHANGED notEmbVars
    \/ GeminiCallOk /\ UNCHANGED notEmbVars
    \/ GeminiCallFail /\ UNCHANGED notEmbVars
    \/ GeminiStore /\ UNCHANGED notEmbVars
    \/ GeminiMode /\ UNCHANGED notEmbVars
    \/ TfidfFitOk /\ UNCHANGED notEmbVars
    \/ TfidfFitRaise /\ UNCHANGED notEmbVars
    \/ TfidfStore /\ UNCHANGED notEmbVars
    \/ TfidfMode /\ UNCHANGED notEmbVars
    \/ BuildReturn /\ UNCHANGED notEmbVars
    \/ \E kind \in {"search", "search_with_filters"} :
            SearchEmb(kind) /\ UNCHANGED notEmbVars
    \/ SearchStep /\ UNCHANGED notEmbVars
    \/ QueryCallOk /\ UNCHANGED notEmbVars
    \/ QueryCallFail /\ UNCHANGED notEmbVars
    \/ ReaderSearch /\ UNCHANGED notEmbVars

SpecEmb == InitEmb /\ [][NextEmb]_vars

-----------------------------------------------------------------------------
(* Properties of TextIndex.search_with_filters *)

\* The constraints of a request, stated on canonical tokens.
HasCategory(it, r) ==
    _norm_cat(r.category) # None
        => _norm_cat(it.category) = _norm_cat(r.category)

HasColor(it, r) ==
    _norm_color(r.color) # None
        => _norm_color(it.color) = _norm_color(r.color)

InPrice(it, r) ==
    /\ r.min_price # NoPrice => r.min_price <= it.price
    /\ r.max_price # NoPrice => it.price <= r.max_price

\* No item of the catalog meets category, color and price together.
FullFilterEmpty(cat, r) ==
    ~\E i \in 1..Len(cat) :
        HasCategory(cat[i], r) /\ HasColor(cat[i], r) /\ InPrice(cat[i], r)

\* The catalog places that meet category and price.
CatPriceMatches(cat, r) ==
    {i \in 1..Len(cat) : HasCategory(cat[i], r) /\ InPrice(cat[i], r)}

OutIdx == {out.items[k].idx : k \in 1..Len(out.items)}

\* C1: every returned item has the requested recognized category and a
\* price within the requested bounds, and the requested recognized color
\* too unless no item met category, color and price together (the color
\* was then relaxed).
C1_HardFiltersKept ==
    \A k \in 1..Len(out.items) :
        LET it == out.items[k].item
        IN  /\ HasCategory(it, req)
            /\ InPrice(it, req)
            /\ ~FullFilterEmpty(catalog, req) => HasColor(it, req)

\* A recognized category, a recognized color and a price cap are asked
\* for, the catalog holds an item of another category and one of another
\* color, and something is returned.
C1_Witness ==
    /\ req # NoReq
    /\ _norm_cat(req.category) # None
    /\ _norm_color(req.color) # None
    /\ req.max_price # NoPrice
    /\ Len(out.items) >= 1
    /\ \E i \in 1..Len(catalog) : ~HasCategory(catalog[i], req)
    /\ \E i \in 1..Len(catalog) : ~HasColor(catalog[i], req)

\* C2: when no item meets category, color and price together and a
\* category was given, the call returns the top_k ranking of the items
\* meeting category and price: top_k of them (all, if fewer), each once,
\* in descending score; it returns nothing only if there is none.
C2_ColorRelaxed ==
    (req # NoReq /\ Truthy(req.category) /\ FullFilterEmpty(catalog, req))
    => /\ ~out.raised
       /\ OutIdx \subseteq CatPriceMatches(catalog, req)
       /\ Cardinality(OutIdx) = Len(out.items)
       /\ Len(out.items)
            = Min(req.top_k, Cardinality(CatPriceMatches(catalog, req)))
       /\ \A k \in 1..(Len(out.items) - 1) :
            out.items[k].score >= out.items[k + 1].score
       /\ (out.items = <<>> /\ req.top_k >= 1)
            => CatPriceMatches(catalog, req) = {}

\* C3: a category (a color) outside the canonical set gives the result of
\* the same call without the category (the color).
C3_UnrecognizedIsAbsent ==
    req # NoReq =>
        /\ (Truthy(req.category) /\ _norm_cat(req.category) = None)
            => out = search_with_filters(catalog, vecs, sortTies,
                                         [req EXCEPT !.category = None])
        /\ (Truthy(req.color) /\ _norm_color(req.color) = None)
            => out = search_with_filters(catalog, vecs, sortTies,
                                         [req EXCEPT !.color = None])

\* C4: every candidate that is scored passed the price filter and gets a
\* price boost of 0.10 * price / max_price, within [0, 0.10] (0 without
\* max_price): the division is defined, the -1.0 branch is not taken, and
\* no item above max_price is returned.
C4_BoostAfterFilter ==
    req # NoReq =>
        LET cand == CandidateIdx(catalog, req)
        IN  /\ \A j \in 1..Len(cand) :
                LET it == catalog[cand[j]]
                IN  /\ ~PriceBoostRaises(it, req.max_price)
                    /\ price_boost(it, req.max_price) \in 0..PriceBoostFull
                    /\ req.max_price = NoPrice
                        => price_boost(it, req.max_price) = 0
            /\ \A k \in 1..Len(out.items) :
                req.max_price # NoPrice
                    => out.items[k].item.price <= req.max_price

C6_DescendingStable ==
    (req # NoReq /\ ~out.raised) =>
        LET cand  == CandidateIdx(catalog, req)
            score == CandScores(catalog, vecs, req, cand)
        IN  /\ \A k \in 1..(Len(out.items) - 1) :
                \/ out.items[k].score > out.items[k + 1].score
                \/ /\ out.items[k].score = out.items[k + 1].score
                   /\ out.items[k].idx < out.items[k + 1].idx
            /\ \A j \in 1..Len(cand) : \A k \in 1..Len(out.items) :
                cand[j] \notin OutIdx =>
                    \/ score[j] < out.items[k].score
                    \/ /\ score[j] = out.items[k].score
                       /\ cand[j] > out.items[k].idx

-----------------------------------------------------------------------------
(* Properties of EmbeddingIndex *)

\* What _load needs is in the cache, written by one build.
CacheLoadable(f) ==
    /\ f.mode = "gemini" =>
        /\ f.vec.exists /\ f.meta.exists
        /\ Len(f.vec.data) = Len(f.meta.data)
        /\ RowsBackend(f.vec.data) \in {"gemini", "empty"}
    /\ f.mode = "tfidf" =>
        /\ f.tfx.exists /\ f.tfm.exists /\ f.meta.exists
        /\ Len(f.tfx.data) = Len(f.meta.data)
        /\ RowsBackend(f.tfx.data) = "tfidf"

C8_EncoderOfVectors ==
    eObs.by = "caller" => (eObs.vec = "empty" \/ eObs.enc = eObs.vec)

\* C9: when Gemini and TF-IDF both fail, the build fails and the cache
\* files, self._X, self._mode and the vectorizer are as they were when the
\* build began; the cache stays loadable.
C9_FailedBuildKeepsGeneration ==
    eOutcome = "build_failed" =>
        /\ eFiles = eSnap.files
        /\ eX = eSnap.X
        /\ eMode = eSnap.mode
        /\ eTfidf = eSnap.tfidf
        /\ CacheLoadable(eFiles)

\* A rebuild begun by a search of a loaded index, with a generation in
\* the cache and in memory, has failed after Gemini was tried.
C9_Witness ==
    /\ eOutcome = "build_failed"
    /\ eRet = "search"
    /\ eSnap.files.mode # "absent"
    /\ eSnap.X.set /\ eSnap.X.data # <<>>
    /\ eHist.called

\* C10: a search that scores while a rebuild is under way, or right
\* after the rebuild its own failure began, reads a backend identity, uses
\* an encoder and scores rows that are those of one generation.
C10_OneGeneration ==
    (eObs.by = "reader" \/ (eObs.by = "caller" /\ eDepth > 0)) =>
        \/ eObs.vec = "empty"
        \/ /\ ModeInUse(eObs.identity) = eObs.vec
           /\ eObs.enc = eObs.vec

\* The searches of an EmbeddingIndex whose query is embedded.  numpy's
\* argsort is the one of TextBuilt.
InitEmbQuery ==
    /\ EmbQueryBuilt
    /\ TextBuilt /\ catalog = <<>>
    /\ EmbIdle
    /\ VisIdle
    /\ ImageIdle
    /\ ColorIdle
    /\ LaterIdle

NextEmbQuery == (\E r \in EmbRequests : EmbQuery(r)) \/ EmbQueryReturn

SpecEmbQuery == InitEmbQuery /\ [][NextEmbQuery]_vars

InitImage ==
    /\ ImageBuilt
    /\ TextIdle
    /\ EmbIdle
    /\ VisIdle
    /\ EmbQueryIdle
    /\ ColorIdle
    /\ LaterIdle

NextImage ==
    \/ \E r \in ImageRequests, got \in SUBSET (1..MaxProducts) :
            SearchByImageUrl(r, got)
    \/ ImageReturn

SpecImage == InitImage /\ [][NextImage]_vars

\* Every search of the four search components.  They share no state: a
\* behaviour runs the searches of the one that is constructed.
InitSearches ==
    \/ InitText
    \/ TextBuilt /\ catalog = <<>> /\ VisBuilt /\ EmbIdle /\ RestIdle
    \/ InitEmbQuery /\ qCatalog # <<>>
    \/ InitImage /\ iProducts # <<>>

TextOnly == vBackend = "none" /\ qCatalog = <<>> /\ iProducts = <<>>

NextSearches ==
    \/ TextOnly /\ \E r \in Requests : SearchText(r)
    \/ TextOnly /\ ReturnText
    \/ \E r \in VisRequests : SearchImage(r)
    \/ ReturnImage
    \/ qCatalog # <<>> /\ \E r \in EmbRequests : EmbQuery(r)
    \/ EmbQueryReturn
    \/ iProducts # <<>> /\ \E r \in ImageRequests :
            \E got \in SUBSET (1..MaxProducts) : SearchByImageUrl(r, got)
    \/ ImageReturn

SpecSearches == InitSearches /\ [][NextSearches]_vars

InitColor ==
    /\ ColorInit
    /\ TextIdle
    /\ EmbIdle
    /\ VisIdle
    /\ EmbQueryIdle
    /\ ImageIdle
    /\ LaterIdle

NextColor == Classify \/ ClassifyReturn

SpecColor == InitColor /\ [][NextColor]_vars

\* A cache directory and the VisionIndex objects made over it, one after
\* another.
InitVisCache == VisIdle /\ TextIdle /\ EmbIdle /\ RestIdle

NextVisCache ==
    \E c \in VisCacheCatalogs, backend \in VisBackends, force \in BOOLEAN :
        VisConstruct(c, backend, force)

SpecVisCache == InitVisCache /\ [][NextVisCache]_vars

-----------------------------------------------------------------------------
(* Properties of the queries: C11 to C20 *)

\* The thread is inside a call of search or search_with_filters.
InSearch ==
    \/ epc \in {"s_start", "s_embed"}
    \/ /\ eRet = "search"
       /\ epc \in {"b_start", "b_gemini", "b_gem_store", "b_gem_mode",
                   "b_tfidf", "b_tf_store", "b_tf_mode", "b_done"}

\* C11: no step of a search changes the vectors the index holds, its
\* backend identity, its catalog or a cache file, also when the embedding
\* of the query fails.
C11_SearchIsReadOnly ==
    [][InSearch => UNCHANGED <<eFiles, eX, eMode, eCatalog>>]_vars

\* The category and the price bounds a search was asked for.
EmbAsked ==
    IF qReq.kind = "search"
    THEN parse_query_constraints(qReq.query)
    ELSE [cat |-> qReq.filters.category, min_p |-> qReq.filters.min_price,
          max_p |-> qReq.filters.max_price]

\* C12: every item EmbeddingIndex.search or search_with_filters returns
\* has the category asked for and a price within the bounds asked for.
C12_EmbKeepsCategoryAndPrice ==
    qReq # NoEmbReq =>
        \A k \in 1..Len(qOut) :
            /\ Truthy(EmbAsked.cat) => qOut[k].item.category = EmbAsked.cat
            /\ EmbAsked.min_p # NoPrice => qOut[k].item.price >= EmbAsked.min_p
            /\ EmbAsked.max_p # NoPrice => qOut[k].item.price <= EmbAsked.max_p

\* C13: when the fetch of the query image fails or its body is no image,
\* the image-URL search returns an empty list.
C13_FetchFailureIsEmpty ==
    iReq.fetch \in {"failed", "garbled"} => iOut = <<>>

\* C14: TextIndex.search_with_filters returns a list, and never raises,
\* for every catalog and every combination of filters and top_k.
C14_AlwaysAnswers ==
    req # NoReq => ~out.raised

\* No two entries of a list of catalog places are the same place.
NoRepeat(s) == \A j, k \in 1..Len(s) : s[j] = s[k] => j = k

\* C15: the list a search returns is no longer than top_k and holds no
\* catalog item twice, for TextIndex.search_with_filters, the
\* EmbeddingIndex searches, VisionIndex._search_image and
\* ImageSearch.search_by_image_url.
C15_AtMostTopK ==
    /\ (req # NoReq /\ ~out.raised) =>
          /\ Len(out.items) <= req.top_k
          /\ NoRepeat([k \in 1..Len(out.items) |-> out.items[k].idx])
    /\ qReq # NoEmbReq =>
          /\ Len(qOut) <= qReq.top_k
          /\ NoRepeat([k \in 1..Len(qOut) |-> qOut[k].idx])
    /\ vReq # NoVisReq =>
          /\ Len(vOut) <= vReq.top_k
          /\ NoRepeat([k \in 1..Len(vOut) |-> vOut[k].idx])
    /\ iReq # NoImageReq =>
          /\ Len(iOut) <= iReq.top_k
          /\ NoRepeat(iOut)

\* A text search with more candidates than top_k returns top_k of them.
C15_Witness ==
    /\ req # NoReq
    /\ ~out.raised
    /\ req.top_k >= 1
    /\ Len(CandidateIdx(catalog, req)) > req.top_k
    /\ Len(out.items) = req.top_k

\* C16: _apply_filters keeps an item if and only if it meets the category
\* and color asked for and min_price <= price <= max_price, each bound
\* applied only when given: a price equal to a bound passes.
C16_PriceBoundsInclusive ==
    req # NoReq =>
        Range(_apply_filters(catalog, all_idx(catalog), req.category,
                             req.color, req.min_price, req.max_price))
        = {i \in 1..Len(catalog) : /\ HasCategory(catalog[i], req)
                                   /\ HasColor(catalog[i], req)
                                   /\ InPrice(catalog[i], req)}

\* A search with both bounds returns an item priced min_price and an item
\* priced max_price.
C16_Witness ==
    /\ req # NoReq
    /\ ~out.raised
    /\ req.min_price # NoPrice
    /\ req.max_price # NoPrice
    /\ \E k \in 1..Len(out.items) : out.items[k].item.price = req.min_price
    /\ \E k \in 1..Len(out.items) : out.items[k].item.price = req.max_price

\* Every region of the image has hue h and passes the mask.
UniformHue(img, h) ==
    /\ img # <<>>
    /\ \A i \in 1..Len(img) : img[i].h = h /\ InMask(img[i])
    /\ \A i, j \in 1..Len(img) : img[i] = img[j]

\* C17: a uniform image of hue 220 degrees, saturated and bright enough
\* to pass the mask, is classified "blue".
C17_Hue220IsBlue ==
    (cColor # "none" /\ UniformHue(cImg, 220)) => cColor = "blue"

\* mean_v < 0.18 and mean_s < 0.25
MeansBlack(img) ==
    /\ SumOver(img, "v", 1) < 18 * Len(img)
    /\ SumOver(img, "s", 1) < 25 * Len(img)

\* mean_v > 0.90 and mean_s < 0.08
MeansWhite(img) ==
    /\ SumOver(img, "v", 1) > 90 * Len(img)
    /\ SumOver(img, "s", 1) < 8 * Len(img)

\* mean_s < 0.15
MeansGray(img) == SumOver(img, "s", 1) < 15 * Len(img)

\* C18: the neutrals are decided by the means before any hue voting:
\* dark and desaturated is "black", else bright and desaturated is
\* "white", else desaturated is "gray", whatever hues the image holds.
C18_NeutralsFirst ==
    cColor # "none" =>
        /\ MeansBlack(cImg) => cColor = "black"
        /\ (~MeansBlack(cImg) /\ MeansWhite(cImg)) => cColor = "white"
        /\ (~MeansBlack(cImg) /\ ~MeansWhite(cImg) /\ MeansGray(cImg))
              => cColor = "gray"

\* An image that is dark and desaturated on the whole, one region of
\* which passes the mask and would vote for a hue, is classified.
C18_Witness ==
    /\ cColor = "black"
    /\ MeansBlack(cImg)
    /\ \E i \in 1..Len(cImg) : InMask(cImg[i])

\* C19: the vectors an image search compares come from one encoder: the
\* vector of every product and the vector of the query.
C19_OneEncoder ==
    iReq # NoImageReq =>
        \A i \in 1..Len(iObs.venc) : iObs.venc[i] = iObs.qenc

\* C20: the embeddings, histograms and metadata a VisionIndex holds are
\* those of one build: the rows _rebuild gathers from some one catalog,
\* the embeddings given by the encoder the index uses for queries.
C20_OneBuildHeld ==
    vBackend # "none" =>
        \E c \in VisCacheCatalogs :
            LET rows == RebuildRows(c, vBackend, 1)
            IN  /\ vMeta = RowsMeta(rows)
                /\ vEmbs = RowsEmbs(rows)
                /\ vHists = RowsHists(rows)

-----------------------------------------------------------------------------
(* The agent, the statements of a text search, and two generations *)

\* An Agent over a TextIndex and a VisionIndex.
InitAgent ==
    /\ TextBuilt /\ Len(catalog) <= MaxAgentItems
    /\ VisBuilt /\ vBackend = "hsv" /\ vCatalog \in VisCacheCatalogs
    /\ EmbIdle
    /\ RestIdle

NextAgent ==
    \/ \E t \in UserTexts, g \in GeminiReplies, fetch \in BOOLEAN :
            Chat(t, g, fetch)
    \/ ChatReturn

SpecAgent == InitAgent /\ [][NextAgent]_vars

InitSteps == InitText

NextSteps ==
    \/ \E r \in Requests : StepCall(r)
    \/ StepEncode
    \/ StepSims
    \/ StepFilter
    \/ StepRank
    \/ StepReturn

SpecSteps == InitSteps /\ [][NextSteps]_vars

\* A call is remembered, the catalog changes, and the call is replayed on
\* the new generation.
InitGen ==
    /\ GenBuilt
    /\ EmbIdle
    /\ VisIdle
    /\ EmbQueryIdle /\ ImageIdle /\ ColorIdle
    /\ AgentIdle /\ StepIdle

NextGen ==
    \/ \E r \in GenRequests : (memoReq = NoReq \/ r = memoReq) /\ GenSearch(r)
    \/ gCatalog = Unset /\ RememberText
    \/ gCatalog # Unset /\ ReturnText
    \/ \E c \in GenCatalogs : Regenerate(c)

SpecGen == InitGen /\ [][NextGen]_vars

-----------------------------------------------------------------------------
(* Properties of the agent and of the rankings: C21 to C30 *)

C22_FilterBeforeEncode ==
    /\ sQv.set => (sCand.set /\ sCand.data # <<>>)
    /\ sSims.set => (sCand.set /\ Len(sSims.data) = Len(sCand.data))

\* The items that pass the filters in effect, after the relaxation of the
\* color if any, in catalog order, and their vectors.
PassingItems(cat, r) ==
    LET cand == CandidateIdx(cat, r)
    IN  [j \in 1..Len(cand) |-> cat[cand[j]]]

PassingVecs(cat, vv, r) ==
    LET cand == CandidateIdx(cat, r)
    IN  [j \in 1..Len(cand) |-> vv[cand[j]]]

\* The items returned and their scores, in the order returned.
Ranked(o) ==
    [k \in 1..Len(o.items) |->
        [item |-> o.items[k].item, score |-> o.items[k].score]]

\* A call was remembered on the generation before and is replayed on the
\* one in use.
Replayed == gCatalog.set /\ req # NoReq /\ req = memoReq

\* C23: filtered-out items never influence the ranking: when two
\* generations hold the same items passing the filters, with the same
\* vectors and in the same relative order, the same call returns the same
\* items, in the same order, with the same scores on both.
C23_FilteredOutNoInfluence ==
    (/\ Replayed
     /\ PassingItems(gCatalog.data, req) = PassingItems(catalog, req)
     /\ PassingVecs(gCatalog.data, gVecs, req) = PassingVecs(catalog, vecs, req))
        => (out.raised = memoOut.raised /\ Ranked(out) = Ranked(memoOut))

\* C24: when the embedding of the query fails, the search rebuilds the
\* index once and retries itself once, and the retry ends with a result:
\* a query is never in its second rebuild or its second retry, and it
\* does not end by raising.
C24_OneRebuildOneRetry ==
    /\ eDepth <= 1
    /\ (epc = "b_start" /\ eRet = "search") => eDepth = 0
    /\ (epc = "idle" /\ eDepth >= 1) => eOutcome \in {"ok", "empty"}

\* C25: a build calls Gemini at most Retries times for an item: a call
\* that answers yields the item's vector, a call that fails before the
\* last attempt is retried, and the failure of the last attempt abandons
\* Gemini for the build, which makes no Gemini call from then on.
C25_ThreeAttemptsThenAbandon ==
    [][/\ epc = "b_gemini" =>
            /\ eAttempt < Retries
            /\ \/ UNCHANGED <<epc, eItem, eAttempt, eGot>>
               \/ /\ eAttempt' = eAttempt + 1
                  /\ eAttempt' < Retries
                  /\ UNCHANGED <<epc, eItem, eGot>>
               \/ /\ eAttempt = Retries - 1
                  /\ epc' = "b_tfidf"
                  /\ eGot' = <<>>
               \/ /\ eGot' = Append(eGot, Row("gemini", eCatalog[eItem]))
                  /\ epc' \in {"b_gemini", "b_gem_store"}
       /\ epc \in {"b_tfidf", "b_tf_store", "b_tf_mode"} => epc' # "b_gemini"
      ]_vars

\* Gemini answered for an item of the build and then failed Retries
\* times on a later one: the build has gone on to TF-IDF.
C25_Witness ==
    /\ epc = "b_tfidf"
    /\ apiKey
    /\ eHist.anyOk
    /\ eGot = <<>>
    /\ eItem = 2

\* The base similarity of a query image to each row: the cosine of the
\* embeddings, or the histogram intersection under the hsv encoder.
BaseSims(img) ==
    [j \in 1..Len(vMeta) |->
        IF vBackend \in {"open_clip", "resnet50"}
        THEN Cosine(vEmbs[j], Encode(vBackend, img))
        ELSE _hist_intersection(vHists[j], img.hist)]

\* The category prior _search_image computes for a query image.
PriorOf(img) ==
    _category_prior(vMeta, sortTies,
                    _score(vBackend, vMeta, vEmbs, vHists,
                           _embed(vBackend, img)))

\* C26: the category prior of a vision query depends on the base
\* similarities alone: a query image with the same base similarity to
\* every row as the one searched gets the same prior, whatever color is
\* detected in it.
C26_PriorFromBaseAlone ==
    vReq # NoVisReq =>
        \A img \in QueryImages :
            BaseSims(img) = BaseSims(vReq.img) => PriorOf(img) = PriorOf(vReq.img)

\* The rows _category_prior counts for a query image: the top TopM.
TopRows(img) ==
    LET scores == _score(vBackend, vMeta, vEmbs, vHists, _embed(vBackend, img))
    IN  Slice(ArgSortDesc(scores, sortTies), Min(TopM, Len(scores)))

\* How many of the counted rows have the category.
TopCount(img, c) ==
    Cardinality({k \in 1..Len(TopRows(img)) :
                    vMeta[TopRows(img)[k]].category = c})

\* C27: the category prior of a category is its count among the top TopM
\* rows over TopM, times 0.15, plus 0.05 for one category, a most
\* frequent one; a category with no row among them has none; and this
\* whatever the number of rows, under TopM or not.
C27_PriorIsCountOverForty ==
    (vReq # NoVisReq /\ vMeta # <<>>) =>
        LET img   == vReq.img
            prior == PriorOf(img)
            cats  == {vMeta[j].category : j \in 1..Len(vMeta)}
        IN  \E best \in cats :
               /\ \A c \in cats : TopCount(img, c) <= TopCount(img, best)
               /\ \A c \in cats :
                     IF TopCount(img, c) = 0 THEN c \notin DOMAIN prior
                     ELSE /\ c \in DOMAIN prior
                          /\ prior[c] =
                               (TopCount(img, c) * PriorFull) \div TopM
                               + (IF c = best THEN BestNudge ELSE 0)


-----------------------------------------------------------------------------
(* Vision scoring over items of every kind of color *)

MaxScoreItems == 2

\* Catalogs with an item whose stored color is a neutral.
ScoreCatalogs ==
    UNION {[1..n -> {VItemA, VItemC, VItemE}] : n \in 1..MaxScoreItems}

InitScore ==
    /\ TextBuilt /\ catalog = <<>>
    /\ VisBuiltOver(ScoreCatalogs)
    /\ EmbIdle
    /\ RestIdle

NextScore ==
    \/ \E r \in DetVisRequests : SearchImage(r)
    \/ ReturnImage

SpecScore == InitScore /\ [][NextScore]_vars

\* The colors _dominant_color_name gives to an image without a hue.
Neutrals == {"black", "white", "gray"}

\* What _score adds to row j for its color: the score less the base
\* similarity and the histogram similarity.
ColorBoost(j) ==
    _score(vBackend, vMeta, vEmbs, vHists, _embed(vBackend, vReq.img))[j]
    - BaseSims(vReq.img)[j]
    - (_hist_intersection(vHists[j], vReq.img.hist) \div HistSimDiv)

\* C28: the color boost of a row is 0.12 when its color is the color
\* detected in the query image, 0.02 when its color is black, white or
\* gray, and nothing otherwise.
C28_ColorBoostWithNeutralPrior ==
    vReq # NoVisReq =>
        \A j \in 1..Len(vMeta) :
            ColorBoost(j) =
                IF vMeta[j].color = vReq.img.dom THEN ColorBonus
                ELSE IF vMeta[j].color \in Neutrals THEN (2 * One) \div 100
                ELSE 0


EffectiveMatches(cat, r) ==
    IF ~FullFilterEmpty(cat, r)
    THEN {i \in 1..Len(cat) : HasCategory(cat[i], r) /\ HasColor(cat[i], r)
                                 /\ InPrice(cat[i], r)}
    ELSE IF Truthy(r.category) THEN CatPriceMatches(cat, r)
    ELSE {}

\* The final score of the item at place i, for the running request.
FinalScore(i) == CandScores(catalog, vecs, req, <<i>>)[1]

\* C30: a search returns every item that meets the filters in effect,
\* once each, when they are at most top_k; otherwise it returns top_k of
\* them, and none left out scores strictly higher than one returned.
C30_NoMatchLost ==
    req # NoReq =>
        LET E == EffectiveMatches(catalog, req)
        IN  /\ ~out.raised
            /\ OutIdx \subseteq E
            /\ Cardinality(OutIdx) = Len(out.items)
            /\ IF Cardinality(E) <= req.top_k
               THEN OutIdx = E
               ELSE /\ Len(out.items) = req.top_k
                    /\ \A i \in E \ OutIdx : \A k \in 1..Len(out.items) :
                            FinalScore(i) <= out.items[k].score

=============================================================================
